---- MODULE Spec2Model ----
(***************************************************************************)
(* Model of the mash agent: the agent loop (core/agent.rs), local tool     *)
(* execution (core/tools.rs), the routing part of the MCP manager and its  *)
(* HTTP facade (core/mcp.rs), and the input section of the TUI that spawns *)
(* agent tasks, queues input while busy and clears the conversation        *)
(* (tui/components/input_section.rs, tui/mod.rs).                          *)
(*                                                                         *)
(* Strings are sequences of tokens; tool names are sequences of one-       *)
(* character tokens so that prefix stripping and separator search are      *)
(* computed as the code computes them.                                     *)
(***************************************************************************)
EXTENDS Integers, Sequences, FiniteSets, TLC

VARIABLES
    messages,               \* AppContext::messages: Vec<Message>
    pending_user_messages,  \* AppContext::pending_user_messages: Vec<String>
    busy,                   \* InputSection's busy state
    bcast,                  \* broadcast messages not yet received by the busy tracker
    messages_lock,          \* holder of the Conversation mutex: a task id, 0 when free
    loops,                  \* the spawned agent tasks, in spawn order
    clients,                \* McpManager::clients: connected server -> tool snapshot
    tool_defs,              \* AppContext::tool_defs
    delivered,              \* calls that reached a connection's call_tool
    tool_turns,             \* number of turns that carried tool calls (bounded)
    next_id,                \* next tool_use id the remote model generates
    submits,                \* number of submissions made (bounded)
    mcp_lock,               \* holder of the Arc<Mutex<McpManager>>: a call id, 0 when free
    calls,                  \* the calls made to the registry, in arrival order
    conns,                  \* McpClient per connected server: next_id and the requests
                            \* written to its stdin that have no response yet
    children,               \* the live child processes: what was written to their
                            \* stdin, the lines on their stdout not yet read
    spawned,                \* number of child processes spawned so far
    op,                     \* the operation running on the McpManager (&mut self)
    last_line,              \* what the last line read by the current request was
    catalogs,               \* what the last two calls of tool_definitions returned
                            \* since the last connect
    shell,                  \* one run of exec_bash: the process outcome, the result
    http,                   \* one AnthropicClient::send: the exchange, the result
    task                    \* one task of spawn_agent_task with its forwarder, and
                            \* the busy tracker's receiver

\* The state of the registry's callers and connections
facade_vars == <<mcp_lock, calls, conns>>

\* The state of the connections' processes and of the manager's operations
client_vars == <<children, spawned, op, last_line, catalogs>>

\* The state of the runs of exec_bash, AnthropicClient::send and
\* spawn_agent_task taken alone
unit_vars == <<shell, http, task>>

vars == <<messages, pending_user_messages, busy, bcast, messages_lock, loops, clients,
          tool_defs, delivered, tool_turns, next_id, submits, facade_vars,
          client_vars, unit_vars>>

(* ------------------------------ bounds --------------------------------- *)

MaxToolTurns == 2
MaxSubmits == 2

(* ------------------------------ strings -------------------------------- *)

BASH == <<"b", "a", "s", "h">>
MCP_PREFIX == <<"m", "c", "p", "_", "_">>
SEP == <<"_", "_">>

\* str::strip_prefix: the rest after the prefix, or "None"
strip_prefix(s, p) ==
    IF Len(s) >= Len(p) /\ SubSeq(s, 1, Len(p)) = p
    THEN [some |-> TRUE, rest |-> SubSeq(s, Len(p) + 1, Len(s))]
    ELSE [some |-> FALSE, rest |-> <<>>]

\* str::find: the 0-based index of the first occurrence of pat, or -1 for None
find(s, pat) ==
    LET hits == {k \in 0..(Len(s) - Len(pat)) : SubSeq(s, k + 1, k + Len(pat)) = pat}
    IN  IF hits = {} THEN -1 ELSE CHOOSE k \in hits : \A j \in hits : k <= j

\* format!("mcp__{}__{}", server, tool)
namespaced(server, tool) == MCP_PREFIX \o server \o SEP \o tool

\* Vec<String>::join("\n\n")
RECURSIVE join(_)
join(texts) ==
    IF texts = <<>> THEN <<>>
    ELSE IF Len(texts) = 1 THEN texts[1]
    ELSE texts[1] \o <<"\n\n">> \o join(Tail(texts))

(* --------------------------- configuration ----------------------------- *)

GIT == <<"g">>
STATUS == <<"s">>

\* Further names an mcp.json and a server's tools/list can hold: names with
\* an underscore at an end, a second server, a disabled server, a name in
\* no configuration
GIT_ == <<"g", "_">>
FILES == <<"f">>
U_STATUS == <<"_", "s">>
OFF == <<"o">>
NOWHERE == <<"n">>

\* mcp.json: the servers that are configured and not disabled, with the
\* tool list each answers to tools/list
EnabledServers == {GIT}
ServerTools(server) == IF server = GIT_ THEN <<STATUS>>
                       ELSE IF server = GIT THEN <<STATUS, U_STATUS>>
                       ELSE <<STATUS>>

\* McpManager::configs of an mcp.json with four servers, one disabled
configs == [n \in {GIT, GIT_, FILES, OFF} |-> [disabled |-> n = OFF]]

(* ------------------------------ messages ------------------------------- *)

TextBlock(t) ==
    [type |-> "text", text |-> t, id |-> 0, name |-> <<>>, input |-> "",
     content |-> <<>>, is_error |-> "None"]

ToolUse(id, name, input) ==
    [type |-> "tool_use", text |-> <<>>, id |-> id, name |-> name, input |-> input,
     content |-> <<>>, is_error |-> "None"]

ToolResult(tool_use_id, content, is_error) ==
    [type |-> "tool_result", text |-> <<>>, id |-> tool_use_id, name |-> <<>>,
     input |-> "", content |-> content, is_error |-> is_error]

TextMessage(role, t) == [role |-> role, kind |-> "Text", text |-> t, blocks |-> <<>>]
BlocksMessage(role, bs) == [role |-> role, kind |-> "Blocks", text |-> <<>>, blocks |-> bs]

(* ------------------------- MCP manager (routing) ----------------------- *)

\* McpClient::call_tool: the tools/call exchange with the server process; the
\* server answers with one text block naming the tool it ran
client_call_tool(server, tool_name) == <<"result of ">> \o server \o <<".">> \o tool_name

\* (mutant) str::rfind: the index of the last occurrence of pat, or -1
rfind(s, pat) ==
    LET hits == {k \in 0..(Len(s) - Len(pat)) : SubSeq(s, k + 1, k + Len(pat)) = pat}
    IN  IF hits = {} THEN -1 ELSE CHOOSE k \in hits : \A j \in hits : k >= j

\* (mutant) the name is split at the last separator
call_tool_rfind(cl, full_name) ==
    LET rest == strip_prefix(full_name, MCP_PREFIX)
        sep == rfind(rest.rest, SEP)
        server_name == SubSeq(rest.rest, 1, sep)
        tool_name == SubSeq(rest.rest, sep + 3, Len(rest.rest))
    IN  IF ~rest.some \/ sep = -1
        THEN [ok |-> FALSE, routed |-> <<>>, server_name |-> <<>>, tool_name |-> <<>>,
              text |-> <<"Invalid MCP tool name: ">> \o full_name]
        ELSE IF server_name \notin DOMAIN cl
        THEN [ok |-> FALSE, routed |-> <<>>,
              server_name |-> server_name, tool_name |-> tool_name,
              text |-> <<"MCP server '">> \o server_name \o <<"' not connected">>]
        ELSE [ok |-> TRUE, routed |-> <<[server |-> server_name, tool |-> tool_name]>>,
              server_name |-> server_name, tool_name |-> tool_name,
              text |-> client_call_tool(server_name, tool_name)]

\* (mutant) a call for a server that is not connected is handed to a
\* connected one
call_tool_fallback(cl, full_name) ==
    LET rest == strip_prefix(full_name, MCP_PREFIX)
        sep == find(rest.rest, SEP)
        parsed == SubSeq(rest.rest, 1, sep)
        server_name == IF parsed \in DOMAIN cl \/ DOMAIN cl = {} THEN parsed
                       ELSE CHOOSE n \in DOMAIN cl : TRUE
        tool_name == SubSeq(rest.rest, sep + 3, Len(rest.rest))
    IN  IF ~rest.some \/ sep = -1
        THEN [ok |-> FALSE, routed |-> <<>>, server_name |-> <<>>, tool_name |-> <<>>,
              text |-> <<"Invalid MCP tool name: ">> \o full_name]
        ELSE IF server_name \notin DOMAIN cl
        THEN [ok |-> FALSE, routed |-> <<>>,
              server_name |-> server_name, tool_name |-> tool_name,
              text |-> <<"MCP server '">> \o server_name \o <<"' not connected">>]
        ELSE [ok |-> TRUE, routed |-> <<[server |-> server_name, tool |-> tool_name]>>,
              server_name |-> server_name, tool_name |-> tool_name,
              text |-> client_call_tool(server_name, tool_name)]

\* McpManager::call_tool: strip the prefix, split at the first separator,
\* look the server up among the connected clients, delegate
call_tool(cl, full_name) ==
    LET rest == strip_prefix(full_name, MCP_PREFIX)
        sep == find(rest.rest, SEP)
        server_name == SubSeq(rest.rest, 1, sep)
        tool_name == SubSeq(rest.rest, sep + 3, Len(rest.rest))
    IN  IF ~rest.some \/ sep = -1
        THEN [ok |-> FALSE, routed |-> <<>>, server_name |-> <<>>, tool_name |-> <<>>,
              text |-> <<"Invalid MCP tool name: ">> \o full_name]
        ELSE IF server_name \notin DOMAIN cl
        THEN [ok |-> FALSE, routed |-> <<>>,
              server_name |-> server_name, tool_name |-> tool_name,
              text |-> <<"MCP server '">> \o server_name \o <<"' not connected">>]
        ELSE [ok |-> TRUE, routed |-> <<[server |-> server_name, tool |-> tool_name]>>,
              server_name |-> server_name, tool_name |-> tool_name,
              text |-> client_call_tool(server_name, tool_name)]

\* mcp_call_handler: POST /mcp/call {server, tool}; 200 with the text or 500
\* with the error text
mcp_call_handler(cl, server, tool) ==
    LET r == call_tool(cl, namespaced(server, tool))
    IN  [status |-> IF r.ok THEN 200 ELSE 500, body |-> r.text, routed |-> r.routed]

\* McpManager::tool_definitions: the namespaced name of every tool of every
\* connected client (iteration order over the clients is the map's)
RECURSIVE tool_definitions(_)
tool_definitions(cl) ==
    IF DOMAIN cl = {} THEN <<>>
    ELSE LET server == CHOOSE n \in DOMAIN cl : TRUE
             rest == [n \in DOMAIN cl \ {server} |-> cl[n]]
         IN  [i \in 1..Len(cl[server]) |-> namespaced(server, cl[server][i])]
             \o tool_definitions(rest)

(* ----------------------------- local tools ----------------------------- *)

\* tools::definitions: the one fixed local tool
definitions == <<BASH>>

\* What `bash -c command` does when it is run: the commands the model asks
\* for and the output each produces.  "curl" posts {server: g, tool: s} to
\* the HTTP facade and prints the response body.
Commands == {"printf ok", "exit 3", "curl"}

ProcessOutput(cl, command) ==
    CASE command = "printf ok" -> [stdout |-> <<"ok">>, stderr |-> <<>>, code |-> 0,
                                   routed |-> <<>>]
      [] command = "exit 3" -> [stdout |-> <<>>, stderr |-> <<>>, code |-> 3,
                                routed |-> <<>>]
      [] command = "curl" ->
            LET h == mcp_call_handler(cl, GIT, STATUS)
            IN  [stdout |-> h.body, stderr |-> <<>>, code |-> 0, routed |-> h.routed]
      [] OTHER -> [stdout |-> <<>>, stderr |-> <<>>, code |-> 0, routed |-> <<>>]

\* The outcomes of Command::new("bash").arg("-c").arg(command).output():
\* the process cannot be spawned, or it runs to completion
ProcessOutcomes(cl, command) ==
    {[spawned |-> FALSE, stdout |-> <<>>, stderr |-> <<>>, code |-> 0, routed |-> <<>>]}
    \cup {[spawned |-> TRUE] @@ ProcessOutput(cl, command)}

\* (mutant) the exit code trailer is written whatever the exit status
exec_bash_trailer(proc) ==
    IF ~proc.spawned
    THEN [ok |-> FALSE, text |-> <<"No such file or directory (os error 2)">>,
          routed |-> <<>>]
    ELSE LET r1 == IF proc.stdout # <<>> THEN proc.stdout ELSE <<>>
             r2 == IF proc.stderr # <<>>
                   THEN (IF r1 # <<>> THEN r1 \o <<"\n">> ELSE r1)
                        \o <<"[stderr]\n">> \o proc.stderr
                   ELSE r1
         IN  [ok |-> TRUE, routed |-> proc.routed,
              text |-> r2 \o <<"\n[exit code: ", ToString(proc.code), "]">>]

\* tools::exec_bash: compose the result text from stdout, stderr, exit status
exec_bash(proc) ==
    IF ~proc.spawned
    THEN [ok |-> FALSE, text |-> <<"No such file or directory (os error 2)">>,
          routed |-> <<>>]
    ELSE LET r1 == IF proc.stdout # <<>> THEN proc.stdout ELSE <<>>
             r2 == IF proc.stderr # <<>>
                   THEN (IF r1 # <<>> THEN r1 \o <<"\n">> ELSE r1)
                        \o <<"[stderr]\n">> \o proc.stderr
                   ELSE r1
             r3 == IF proc.code # 0
                   THEN r2 \o <<"\n[exit code: ", ToString(proc.code), "]">>
                   ELSE r2
         IN  [ok |-> TRUE, text |-> r3, routed |-> proc.routed]

\* (mutant) namespaced names are routed to the MCP manager
execute_routing(name, proc) ==
    IF name = BASH THEN exec_bash(proc)
    ELSE IF strip_prefix(name, MCP_PREFIX).some
    THEN LET r == call_tool(clients, name)
         IN  [ok |-> r.ok, text |-> r.text, routed |-> r.routed]
    ELSE [ok |-> TRUE, text |-> <<"Unknown tool: ">> \o name, routed |-> <<>>]

\* tools::execute: "bash" runs the shell, every other name is answered with
\* the text "Unknown tool: <name>"
execute(name, proc) ==
    IF name = BASH THEN exec_bash(proc)
    ELSE [ok |-> TRUE, text |-> <<"Unknown tool: ">> \o name, routed |-> <<>>]

(* ------------------------------ transport ------------------------------ *)

\* The content of the responses the remote model gives; it generates the
\* tool_use ids, here fresh ones starting at id
Responses(id) ==
    { <<TextBlock(<<"done">>)>>,
      <<ToolUse(id, BASH, "curl")>>,
      <<TextBlock(<<>>), ToolUse(id, BASH, "exit 3"),
        ToolUse(id + 1, namespaced(GIT, STATUS), ""),
        ToolResult(0, <<"stray">>, "None")>> }

\* run_agent_loop, the classification of the returned blocks: the tool
\* calls in received order
ToolCalls(content) == SelectSeq(content, LAMBDA b : b.type = "tool_use")

(* ------------------------------ agent task ----------------------------- *)

\* (mutant) the catalog is the local tool plus the connected servers' tools
run_tool_defs_union(cl) == definitions \o tool_definitions(cl)

\* tui::run: the catalog stored in the AppContext and handed to every send
run_tool_defs(cl) == definitions

NoProc == [spawned |-> FALSE, stdout |-> <<>>, stderr |-> <<>>, code |-> 0, routed |-> <<>>]

\* The locals of a task spawned by spawn_agent_task and of the
\* run_agent_loop it runs
NewLoop(pc, text) ==
    [pc |-> pc, input |-> text, snapshot |-> <<>>, sent_tools |-> <<>>,
     response |-> <<>>, tool_calls |-> <<>>, i |-> 0, results |-> <<>>,
     proc |-> NoProc, pending |-> <<>>, result |-> "None"]

LoopIds == 1..Len(loops)

\* No operation is running on the manager
NoOp == [kind |-> "none"]

\* No run of exec_bash, no send, is looked at alone
NoShell == [pc |-> "none"]
NoHttp == [pc |-> "none"]

\* No task of spawn_agent_task is looked at alone; the busy tracker has
\* subscribed and waits in rx.recv()
NoTask ==
    [pc |-> "none", turns |-> 0, result |-> "None", events |-> 0,
     forwarder |-> "none", sent |-> <<>>, lagged |-> FALSE, tracker |-> "receiving"]

\* McpClient::connect: a new client has made the initialize and tools/list
\* requests (ids 1 and 2) and read their responses
connect(n) == [next_id |-> 3, outstanding |-> <<>>]

\* The positions at which a task is inside run_agent_loop
InLoop == {"snapshot", "send", "executing", "push_results",
           "drain", "push_pending"}

Init ==
    /\ messages = <<>>
    /\ pending_user_messages = <<>>
    /\ busy = FALSE
    /\ bcast = <<>>
    /\ messages_lock = 0
    /\ loops = <<>>
    /\ \E S \in SUBSET EnabledServers : clients = [n \in S |-> ServerTools(n)]
    /\ tool_defs = run_tool_defs(clients)
    /\ delivered = <<>>
    /\ tool_turns = 0
    /\ next_id = 1
    /\ submits = 0
    /\ mcp_lock = 0
    /\ calls = <<>>
    /\ conns = [n \in DOMAIN clients |-> connect(n)]
    /\ children = <<>>
    /\ spawned = 0
    /\ op = NoOp
    /\ last_line = "none"
    /\ catalogs = <<>>
    /\ shell = NoShell
    /\ http = NoHttp
    /\ task = NoTask

(* ------------------- run_agent_loop, one step at a time ---------------- *)

SetLoop(l, rec) == loops' = [loops EXCEPT ![l] = rec]

\* (mutant) the guard taken for the snapshot is bound to a local of the
\* iteration and outlives the statement
guard_kept(l) == IF l \in LoopIds /\ loops[l].pc = "snapshot" THEN l ELSE 0

\* `messages.lock().await.<op>(..);`: the MutexGuard is a temporary of the
\* statement and is dropped at its end, so the mutex is free again (0) when
\* the task goes on to its next step
guard_after_statement(l) == 0

\* spawn_agent_task: push the user message into the shared history
PushUserInput(l) ==
    /\ messages_lock = 0
    /\ messages_lock' = guard_after_statement(l)
    /\ loops[l].pc = "start"
    /\ messages' = Append(messages, TextMessage("user", loops[l].input))
    /\ SetLoop(l, [loops[l] EXCEPT !.pc = "snapshot"])
    /\ UNCHANGED <<pending_user_messages, busy, bcast, clients,
                   tool_defs, delivered, tool_turns, next_id, submits, facade_vars,
                   client_vars, unit_vars>>

\* let snapshot = messages.lock().await.clone()
Snapshot(l) ==
    /\ messages_lock = 0
    /\ messages_lock' = guard_after_statement(l)
    /\ loops[l].pc = "snapshot"
    /\ SetLoop(l, [loops[l] EXCEPT !.pc = "send", !.snapshot = messages])
    /\ UNCHANGED <<messages, pending_user_messages, busy, bcast, clients, tool_defs, delivered, tool_turns, next_id, submits, facade_vars,
                   client_vars, unit_vars>>

\* (mutant) the break is missing: the loop goes on to push the results
after_assistant_nobreak(tool_calls) ==
    IF tool_calls = <<>> THEN "push_results" ELSE "executing"

\* `if tool_calls.is_empty() { push; break }`: where the loop goes after the
\* assistant message is pushed
after_assistant(tool_calls) == IF tool_calls = <<>> THEN "done" ELSE "executing"

\* (mutant) only the blocks the classification looks at are kept: text that
\* is not empty and tool_use
assistant_message_classified(content) ==
    BlocksMessage("assistant",
        SelectSeq(content, LAMBDA b : \/ b.type = "tool_use"
                                      \/ (b.type = "text" /\ b.text # <<>>)))

\* Message { role: "assistant", content: MessageContent::Blocks(response.content) }
assistant_message(content) == BlocksMessage("assistant", content)

\* client.send(&snapshot, tool_defs) answers with content: classify the
\* blocks and push the assistant message with all of them
SendOk(l) ==
    /\ messages_lock = 0
    /\ messages_lock' = guard_after_statement(l)
    /\ loops[l].pc = "send"
    /\ \E content \in Responses(next_id) :
          LET tool_calls == ToolCalls(content)
              n == Len(tool_calls)
              next == after_assistant(tool_calls)
          IN  /\ n > 0 => tool_turns < MaxToolTurns
              /\ messages' = Append(messages, assistant_message(content))
              /\ SetLoop(l, [loops[l] EXCEPT !.pc = next, !.response = content,
                                !.sent_tools = tool_defs, !.tool_calls = tool_calls,
                                !.i = 1, !.results = <<>>,
                                !.result = IF next = "done" THEN "Ok" ELSE @])
              /\ next_id' = next_id + n
              /\ tool_turns' = IF n > 0 THEN tool_turns + 1 ELSE tool_turns
    /\ UNCHANGED <<pending_user_messages, busy, bcast, clients, tool_defs, delivered, submits, facade_vars,
                   client_vars, unit_vars>>

\* (mutant) the failure is recorded in the conversation
SendErrAppend(l) ==
    /\ messages_lock = 0
    /\ messages_lock' = guard_after_statement(l)
    /\ loops[l].pc = "send"
    /\ messages' = Append(messages, BlocksMessage("assistant", <<TextBlock(<<"error">>)>>))
    /\ SetLoop(l, [loops[l] EXCEPT !.pc = "failed", !.result = "Err",
                                   !.sent_tools = tool_defs])
    /\ UNCHANGED <<pending_user_messages, busy, bcast, clients, tool_defs, delivered,
                   tool_turns, next_id, submits, facade_vars,
                   client_vars, unit_vars>>

\* client.send(...) fails and `?` returns the error
SendErr(l) ==
    /\ loops[l].pc = "send"
    /\ SetLoop(l, [loops[l] EXCEPT !.pc = "failed", !.result = "Err",
                                   !.sent_tools = tool_defs])
    /\ UNCHANGED <<messages, pending_user_messages, busy, bcast, clients, tool_defs, delivered, tool_turns, next_id, submits, messages_lock, facade_vars,
                   client_vars, unit_vars>>

\* (mutant) the error flag is never set
tool_result_no_flag(id, r) == ToolResult(id, r.text, "None")

\* match tools::execute(..) { Ok(output) => (output, None),
\*                            Err(e) => (e.to_string(), Some(true)) }
tool_result(id, r) == ToolResult(id, r.text, IF r.ok THEN "None" ELSE "Some(true)")

\* (mutant) a failed execution is skipped instead of recorded
push_result_skip_err(results, id, r) ==
    IF r.ok THEN Append(results, ToolResult(id, r.text, "None")) ELSE results

\* results.push(ContentBlock::ToolResult {..})
push_result(results, id, r) == Append(results, tool_result(id, r))

\* (mutant) a failed execution aborts the loop
after_execute_abort(r, i, n) ==
    IF ~r.ok THEN "failed" ELSE IF i < n THEN "executing" ELSE "push_results"

\* the for loop goes on to execute the next tool call, or ends
after_execute(r, i, n) == IF i < n THEN "executing" ELSE "push_results"

\* tools::execute, entered for tool call i when the previous step ended,
\* returns
ExecFinish(l) ==
    LET call == loops[l].tool_calls[loops[l].i]
        procs == IF call.name = BASH THEN ProcessOutcomes(clients, call.input)
                 ELSE {NoProc}
    IN  /\ loops[l].pc = "executing"
        /\ \E proc \in procs :
              LET r == execute(call.name, proc)
              IN  /\ SetLoop(l, [loops[l] EXCEPT
                        !.pc = after_execute(r, loops[l].i, Len(loops[l].tool_calls)),
                        !.results = push_result(@, call.id, r),
                        !.i = @ + 1,
                        !.proc = proc])
                  /\ delivered' = delivered \o r.routed
        /\ UNCHANGED <<messages, pending_user_messages, busy, bcast, clients, tool_defs, tool_turns, next_id, submits, messages_lock, facade_vars,
                   client_vars, unit_vars>>

\* push the user message with the tool results
PushResults(l) ==
    /\ messages_lock = 0
    /\ messages_lock' = guard_after_statement(l)
    /\ loops[l].pc = "push_results"
    /\ messages' = Append(messages, BlocksMessage("user", loops[l].results))
    /\ SetLoop(l, [loops[l] EXCEPT !.pc = "drain"])
    /\ UNCHANGED <<pending_user_messages, busy, bcast, clients,
                   tool_defs, delivered, tool_turns, next_id, submits, facade_vars,
                   client_vars, unit_vars>>

\* The locals of an iteration go out of scope when it ends
NextIteration(rec) ==
    [rec EXCEPT !.pc = "snapshot", !.snapshot = <<>>, !.sent_tools = <<>>,
                !.response = <<>>, !.tool_calls = <<>>, !.i = 0, !.results = <<>>,
                !.proc = NoProc, !.pending = <<>>]

\* pending_user_messages.lock().await.drain(..).collect()
Drain(l) ==
    /\ loops[l].pc = "drain"
    /\ pending_user_messages' = <<>>
    /\ SetLoop(l, IF pending_user_messages = <<>> THEN NextIteration(loops[l])
                  ELSE [loops[l] EXCEPT !.pc = "push_pending",
                                        !.pending = pending_user_messages])
    /\ UNCHANGED <<messages, busy, bcast, clients, tool_defs,
                   delivered, tool_turns, next_id, submits, messages_lock, facade_vars,
                   client_vars, unit_vars>>

\* push the queued user input as one user text message
PushPending(l) ==
    /\ messages_lock = 0
    /\ messages_lock' = guard_after_statement(l)
    /\ loops[l].pc = "push_pending"
    /\ messages' = Append(messages, TextMessage("user", join(loops[l].pending)))
    /\ SetLoop(l, NextIteration(loops[l]))
    /\ UNCHANGED <<pending_user_messages, busy, bcast, clients,
                   tool_defs, delivered, tool_turns, next_id, submits, facade_vars,
                   client_vars, unit_vars>>

\* spawn_agent_task after run_agent_loop returned: broadcast the outcome
Finish(l) ==
    /\ loops[l].pc \in {"done", "failed"}
    /\ bcast' = Append(bcast, IF loops[l].result = "Ok" THEN "AgentCompleted"
                              ELSE "AgentError")
    /\ SetLoop(l, NewLoop("end", <<>>))
    /\ UNCHANGED <<messages, pending_user_messages, busy, clients, tool_defs, delivered, tool_turns, next_id, submits, messages_lock, facade_vars,
                   client_vars, unit_vars>>

(* --------------------------- input section ----------------------------- *)

\* The texts submitted with Enter: a typed text (trimmed, not empty) or the
\* "/name" of a skill command chosen in the menu; both branches of the
\* handler submit their text the same way
UserTexts == {<<"hi">>}

\* The Enter handler's submission: while busy, spawn the task that pushes
\* the text to the pending queue; else announce AgentTaskStarted and spawn
\* the agent task.  The spawned push is one critical section on the queue
\* and is taken with the key event that spawns it.
Submit(text) ==
    /\ submits < MaxSubmits
    /\ submits' = submits + 1
    /\ IF busy
       THEN /\ pending_user_messages' = Append(pending_user_messages, text)
            /\ UNCHANGED <<bcast, loops>>
       ELSE /\ bcast' = Append(bcast, "AgentTaskStarted")
            /\ loops' = Append(loops, NewLoop("start", text))
            /\ UNCHANGED pending_user_messages
    /\ UNCHANGED <<messages, busy, clients, tool_defs, delivered, tool_turns, next_id, messages_lock, facade_vars,
                   client_vars, unit_vars>>

\* Enter on a text, at any time
EnterText == \E text \in UserTexts : Submit(text)

\* Enter on /new: spawn the task that clears the conversation.  The spawned
\* task is one critical section, messages.lock().await.clear(), and is
\* taken with the key event that spawns it.
EnterNew ==
    /\ messages_lock = 0
    /\ messages' = <<>>
    /\ messages_lock' = guard_after_statement(0)
    /\ UNCHANGED <<pending_user_messages, busy, bcast, loops, clients, tool_defs,
                   delivered, tool_turns, next_id, submits, facade_vars,
                   client_vars, unit_vars>>

\* The busy tracker receives the next broadcast message
BusyTrack ==
    /\ bcast # <<>>
    /\ busy' = (Head(bcast) = "AgentTaskStarted")
    /\ bcast' = Tail(bcast)
    /\ UNCHANGED <<messages, pending_user_messages, loops,
                   clients, tool_defs, delivered, tool_turns, next_id, submits, messages_lock, facade_vars,
                   client_vars, unit_vars>>

\* Enter on a text once the busy tracker has received every broadcast
EnterTextIdle == bcast = <<>> /\ EnterText

(* ----------------------------- specification --------------------------- *)

LoopStep(l) ==
    \/ PushUserInput(l)
    \/ Snapshot(l)
    \/ SendOk(l)
    \/ SendErr(l)
    \/ ExecFinish(l)
    \/ PushResults(l)
    \/ Drain(l)
    \/ PushPending(l)
    \/ Finish(l)

Next ==
    \/ EnterTextIdle
    \/ EnterNew
    \/ BusyTrack
    \/ \E l \in LoopIds : PushUserInput(l)
    \/ \E l \in LoopIds : Snapshot(l)
    \/ \E l \in LoopIds : SendOk(l)
    \/ \E l \in LoopIds : SendErr(l)
    \/ \E l \in LoopIds : ExecFinish(l)
    \/ \E l \in LoopIds : PushResults(l)
    \/ \E l \in LoopIds : Drain(l)
    \/ \E l \in LoopIds : PushPending(l)
    \/ \E l \in LoopIds : Finish(l)

Spec == Init /\ [][Next]_vars

\* Key events handled at any time, also before the busy tracker has seen
\* AgentTaskStarted (two Enter events delivered in one burst)
NextRace ==
    \/ EnterText
    \/ BusyTrack
    \/ \E l \in LoopIds : PushUserInput(l)
    \/ \E l \in LoopIds : Snapshot(l)
    \/ \E l \in LoopIds : SendOk(l)
    \/ \E l \in LoopIds : SendErr(l)
    \/ \E l \in LoopIds : ExecFinish(l)
    \/ \E l \in LoopIds : PushResults(l)
    \/ \E l \in LoopIds : Drain(l)
    \/ \E l \in LoopIds : PushPending(l)
    \/ \E l \in LoopIds : Finish(l)

RaceSpec == Init /\ [][NextRace]_vars

\* The steps of a task when the Transport answers every send with a response
AnsweredStep(l) ==
    \/ PushUserInput(l)
    \/ Snapshot(l)
    \/ SendOk(l)
    \/ ExecFinish(l)
    \/ PushResults(l)
    \/ Drain(l)
    \/ PushPending(l)
    \/ Finish(l)

NextAnswered ==
    \/ EnterTextIdle
    \/ EnterNew
    \/ BusyTrack
    \/ \E l \in LoopIds : PushUserInput(l)
    \/ \E l \in LoopIds : Snapshot(l)
    \/ \E l \in LoopIds : SendOk(l)
    \/ \E l \in LoopIds : ExecFinish(l)
    \/ \E l \in LoopIds : PushResults(l)
    \/ \E l \in LoopIds : Drain(l)
    \/ \E l \in LoopIds : PushPending(l)
    \/ \E l \in LoopIds : Finish(l)

\* The tokio runtime runs every spawned task that can make a step (the agent
\* tasks, the busy tracker) and the Transport answers every send; the user
\* is under no obligation to press a key
FairSpec ==
    /\ Init /\ [][NextAnswered]_vars
    /\ WF_vars(BusyTrack)
    /\ WF_vars(\E l \in LoopIds : AnsweredStep(l))

(* ---------- MCP registry and HTTP facade, one step at a time ----------- *)

MaxCalls == 2

\* A call to the registry: the request body it came with (HTTP facade), the
\* name handed to McpManager::call_tool, what the routing parsed, the id
\* of the request written to the connection, and the answer
NewCall(origin, server, tool, full_name) ==
    [pc |-> "lock", origin |-> origin, server |-> server, tool |-> tool,
     full_name |-> full_name, server_name |-> <<>>, tool_name |-> <<>>,
     id |-> 0, status |-> 0, text |-> <<>>]

CallIds == 1..Len(calls)

\* The {server, tool} bodies posted to /mcp/call
Bodies == {<<GIT, STATUS>>, <<GIT, U_STATUS>>, <<GIT_, STATUS>>, <<FILES, STATUS>>,
           <<OFF, STATUS>>, <<NOWHERE, STATUS>>}

\* Names handed to McpManager::call_tool by a caller other than the facade:
\* one without the prefix, one with the prefix and no further separator
RegistryNames == {BASH, MCP_PREFIX \o GIT}

\* connect_all: every configured server that is not disabled is tried, the
\* ones whose connect fails are left out
FacadeInit ==
    /\ messages = <<>>
    /\ pending_user_messages = <<>>
    /\ busy = FALSE
    /\ bcast = <<>>
    /\ messages_lock = 0
    /\ loops = <<>>
    /\ \E S \in SUBSET {n \in DOMAIN configs : ~configs[n].disabled} :
          clients = [n \in S |-> ServerTools(n)]
    /\ tool_defs = run_tool_defs(clients)
    /\ delivered = <<>>
    /\ tool_turns = 0
    /\ next_id = 1
    /\ submits = 0
    /\ mcp_lock = 0
    /\ calls = <<>>
    /\ conns = [n \in DOMAIN clients |-> connect(n)]
    /\ children = <<>>
    /\ spawned = 0
    /\ op = NoOp
    /\ last_line = "none"
    /\ catalogs = <<>>
    /\ shell = NoShell
    /\ http = NoHttp
    /\ task = NoTask

\* mcp_call_handler is entered with a body: the name is built from it
Post(server, tool) ==
    /\ Len(calls) < MaxCalls
    /\ calls' = Append(calls, NewCall("facade", server, tool, namespaced(server, tool)))
    /\ UNCHANGED <<messages, pending_user_messages, busy, bcast, messages_lock, loops,
                   clients, tool_defs, delivered, tool_turns, next_id, submits,
                   mcp_lock, conns,
                   client_vars, unit_vars>>

\* another holder of the manager calls McpManager::call_tool with a name
Call(full_name) ==
    /\ Len(calls) < MaxCalls
    /\ calls' = Append(calls, NewCall("registry", <<>>, <<>>, full_name))
    /\ UNCHANGED <<messages, pending_user_messages, busy, bcast, messages_lock, loops,
                   clients, tool_defs, delivered, tool_turns, next_id, submits,
                   mcp_lock, conns,
                   client_vars, unit_vars>>

\* (mutant) the guard is dropped before the call is awaited
handler_guard_dropped(h) == 0

\* `let mut guard = mcp.lock().await; guard.call_tool(..).await`: the guard
\* is a local of the handler and is held while the call is awaited
handler_guard(h) == h

\* (mutant) the id counter is not advanced
send_request_same_id(conn) ==
    [conn EXCEPT !.outstanding = Append(@, conn.next_id)]

\* McpClient::send_request, up to the flush: take the next id and write the
\* request line to the server's stdin
send_request(conn) ==
    [conn EXCEPT !.next_id = @ + 1, !.outstanding = Append(@, conn.next_id)]

\* The caller takes the manager's mutex and McpManager::call_tool routes the
\* name: an error is returned at once (500 from the facade), else the
\* request is written to the connection and the caller awaits the response
Route(h) ==
    LET c == calls[h]
        r == call_tool(clients, c.full_name)
        parsed == [c EXCEPT !.server_name = r.server_name, !.tool_name = r.tool_name]
    IN  /\ c.pc = "lock"
        /\ mcp_lock = 0
        /\ IF r.ok
           THEN /\ conns' = [conns EXCEPT ![r.server_name] = send_request(@)]
                /\ delivered' = delivered \o r.routed
                /\ mcp_lock' = handler_guard(h)
                /\ calls' = [calls EXCEPT ![h] =
                                [parsed EXCEPT !.pc = "waiting",
                                               !.id = conns[r.server_name].next_id]]
           ELSE /\ calls' = [calls EXCEPT ![h] =
                                [parsed EXCEPT !.pc = "responded", !.status = 500,
                                               !.text = r.text]]
                /\ UNCHANGED <<conns, delivered, mcp_lock>>
        /\ UNCHANGED <<messages, pending_user_messages, busy, bcast, messages_lock,
                       loops, clients, tool_defs, tool_turns, next_id, submits,
                   client_vars, unit_vars>>

\* What the server does with a tools/call request: it answers with a result,
\* with an error object, or closes its stdout
ServerAnswers == {"result", "error", "closed"}

\* McpClient::send_request, the read loop, and McpClient::call_tool: the text
\* of the result, or the error
read_response(c, answer) ==
    CASE answer = "result" -> [status |-> 200, text |-> client_call_tool(c.server_name, c.tool_name)]
      [] answer = "error" -> [status |-> 500, text |-> <<"MCP error: ">>]
      [] OTHER -> [status |-> 500,
                   text |-> <<"MCP server '">> \o c.server_name \o <<"' closed connection">>]

\* The awaited call returns: the response to the request is read from the
\* connection (or the read fails), the guard is dropped, the caller answers
Respond(h) ==
    LET c == calls[h]
    IN  /\ c.pc = "waiting"
        /\ \E answer \in ServerAnswers :
              LET r == read_response(c, answer)
              IN  calls' = [calls EXCEPT ![h] =
                              [c EXCEPT !.pc = "responded", !.status = r.status,
                                        !.text = r.text]]
        /\ conns' = [conns EXCEPT ![c.server_name].outstanding =
                                     SelectSeq(@, LAMBDA x : x # c.id)]
        /\ mcp_lock' = IF mcp_lock = h THEN 0 ELSE mcp_lock
        /\ UNCHANGED <<messages, pending_user_messages, busy, bcast, messages_lock,
                       loops, clients, tool_defs, delivered, tool_turns, next_id, submits,
                   client_vars, unit_vars>>

FacadeNext ==
    \/ \E b \in Bodies : Post(b[1], b[2])
    \/ \E full_name \in RegistryNames : Call(full_name)
    \/ \E h \in CallIds : Route(h)
    \/ \E h \in CallIds : Respond(h)

FacadeSpec == FacadeInit /\ [][FacadeNext]_vars

(* ------------------- initial values, group by group -------------------- *)

\* No agent task, empty conversation
AgentIdle ==
    /\ messages = <<>>
    /\ pending_user_messages = <<>>
    /\ busy = FALSE
    /\ bcast = <<>>
    /\ messages_lock = 0
    /\ loops = <<>>
    /\ tool_defs = definitions
    /\ delivered = <<>>
    /\ tool_turns = 0
    /\ next_id = 1
    /\ submits = 0

\* No call on the facade
FacadeIdle ==
    /\ mcp_lock = 0
    /\ calls = <<>>

\* McpManager::load: no child process, no operation
ClientIdle ==
    /\ children = <<>>
    /\ spawned = 0
    /\ op = NoOp
    /\ last_line = "none"
    /\ catalogs = <<>>

(* ----------------------- exec_bash, taken alone ------------------------ *)

\* What `bash -c command` can end with: it cannot be spawned, or it ends
\* with some stdout, some stderr and an exit status; status.code() is None
\* when a signal ended it, which exec_bash prints as -1
ShellProcs ==
    {NoProc} \cup
    [spawned : {TRUE},
     stdout : {<<>>, <<"ok">>, <<"out", "\n">>},
     stderr : {<<>>, <<"warn">>, <<"e1", "\n", "e2">>},
     code : {0, 1, 2, 3, 127, -1},
     routed : {<<>>}]

ShellInit ==
    /\ AgentIdle
    /\ FacadeIdle
    /\ ClientIdle
    /\ clients = [n \in {} |-> <<>>]
    /\ conns = [n \in {} |-> connect(n)]
    /\ http = NoHttp
    /\ task = NoTask
    /\ \E proc \in ShellProcs : shell = [pc |-> "run", proc |-> proc]

\* exec_bash returns
RunBash ==
    /\ shell.pc = "run"
    /\ shell' = [pc |-> "done", proc |-> shell.proc, result |-> exec_bash(shell.proc)]
    /\ UNCHANGED <<messages, pending_user_messages, busy, bcast, messages_lock, loops,
                   clients, tool_defs, delivered, tool_turns, next_id, submits,
                   facade_vars, client_vars, http, task>>

ShellNext == RunBash

ShellSpec == ShellInit /\ [][ShellNext]_vars

(* ------------------ AnthropicClient::send, taken alone ----------------- *)

\* What the server can answer a POST with: a status and a body.  A body is
\* the raw text, whether it is JSON, and the content blocks it holds
Statuses == {200, 201, 400, 429, 500, 503, 529}

HttpBodies ==
    {[raw |-> [k \in 1..Len(c) |-> c[k].type], json |-> TRUE, blocks |-> c] :
        c \in Responses(1)}
    \cup {[raw |-> <<"thinking">>, json |-> TRUE,
            blocks |-> <<[TextBlock(<<>>) EXCEPT !.type = "thinking"]>>],
          [raw |-> <<"boom">>, json |-> FALSE, blocks |-> <<>>]}

\* StatusCode::is_success
is_success(status) == status \in 200..299

\* (mutant) the error carries the status only
api_error_status(status, body) == <<"API error (", ToString(status), "): ">>

\* bail!("API error ({}): {}", status, body)
api_error(status, body) == <<"API error (", ToString(status), "): ">> \o body.raw

\* serde_json::from_str::<Response>(&body): the body must be JSON and every
\* content block of a kind ContentBlock has
from_str(body) ==
    IF body.json /\ \A k \in 1..Len(body.blocks) :
                        body.blocks[k].type \in {"text", "tool_use", "tool_result"}
    THEN [ok |-> TRUE, content |-> body.blocks, error |-> <<>>]
    ELSE [ok |-> FALSE, content |-> <<>>, error |-> <<"decode error">>]

TransportInit ==
    /\ AgentIdle
    /\ FacadeIdle
    /\ ClientIdle
    /\ clients = [n \in {} |-> <<>>]
    /\ conns = [n \in {} |-> connect(n)]
    /\ shell = NoShell
    /\ task = NoTask
    /\ \E status \in Statuses, body \in HttpBodies, reached \in BOOLEAN :
          /\ (~reached) => (status = 200 /\ body.raw = <<"boom">>)
          /\ http = [pc |-> "post", posts |-> 0, reached |-> reached, status |-> status,
                     body |-> body,
                     result |-> [ok |-> FALSE, content |-> <<>>, error |-> <<>>]]

\* .post(&url)...send().await?: the one POST; it fails when the server is
\* not reached
HttpPost ==
    /\ http.pc = "post"
    /\ http' = [http EXCEPT !.posts = @ + 1,
                            !.pc = IF http.reached THEN "answered" ELSE "done",
                            !.result = [ok |-> FALSE, content |-> <<>>,
                                        error |-> <<"error sending request">>]]
    /\ UNCHANGED <<messages, pending_user_messages, busy, bcast, messages_lock, loops,
                   clients, tool_defs, delivered, tool_turns, next_id, submits,
                   facade_vars, client_vars, shell, task>>

\* the status and the body are read: bail on a status that is not a success,
\* else decode the body
HttpReturn ==
    /\ http.pc = "answered"
    /\ http' = [http EXCEPT !.pc = "done",
                            !.result = IF is_success(http.status) THEN from_str(http.body)
                                       ELSE [ok |-> FALSE, content |-> <<>>,
                                             error |-> api_error(http.status, http.body)]]
    /\ UNCHANGED <<messages, pending_user_messages, busy, bcast, messages_lock, loops,
                   clients, tool_defs, delivered, tool_turns, next_id, submits,
                   facade_vars, client_vars, shell, task>>

TransportNext == HttpPost \/ HttpReturn

TransportSpec == TransportInit /\ [][TransportNext]_vars

(* ------------ McpClient and McpManager, one line at a time ------------- *)

MaxSpawns == 3

\* Everything that is not the manager, its clients and their processes
outside_manager ==
    <<messages, pending_user_messages, busy, bcast, messages_lock, loops, tool_defs,
      delivered, tool_turns, next_id, submits, mcp_lock, calls, unit_vars>>

\* The names McpManager::connect is called with: a configured server, a
\* disabled one, one that is not configured (connect_all connects the rest)
ConnectNames == {GIT, OFF, NOWHERE}

\* The names McpManager::call_tool is called with
CallNames == {namespaced(GIT, STATUS), namespaced(GIT, U_STATUS),
              namespaced(NOWHERE, STATUS)}

\* json!({"jsonrpc": "2.0", "id": id, "method": method, "params": params}),
\* and the notification, which has no id (0 here)
request(method, id, tool) == [method |-> method, id |-> id, tool |-> tool]

\* cmd.spawn(): a running child process with piped stdin and stdout
Child(name) ==
    [name |-> name, written |-> <<>>, unanswered |-> {}, state |-> "running",
     eof |-> FALSE]

\* (mutant) no kill_on_drop: the process of a dropped client lives on
kill_none(chs, dropped) == chs

\* (mutant) every process of a server goes with a dropped client of it
kill_server(chs, dropped) ==
    [k \in {j \in DOMAIN chs :
               \A d \in dropped \cap DOMAIN chs : chs[j].name # chs[d].name} |-> chs[k]]

\* kill_on_drop(true): the processes that are left when the clients that
\* own the children in dropped are dropped
kill(chs, dropped) == [k \in DOMAIN chs \ dropped |-> chs[k]]

\* stdin.write_all(line), stdin.flush(): the line is on the child's stdin
\* (written keeps the method and the id of each line, unanswered the
\* requests the server has not answered)
write_all(ch, req) ==
    [ch EXCEPT !.written = Append(@, [method |-> req.method, id |-> req.id]),
               !.unanswered = IF req.id = 0 THEN @ ELSE @ \cup {req}]

NoResult == [kind |-> "none", tools |-> <<>>, text |-> <<>>]

\* The error object a server answers a request with
ServerError(req) ==
    [kind |-> "error", tools |-> <<>>, text |-> <<"-32601 ", req.method>> \o req.tool]

\* What a server answers a request with, by method: any result to
\* initialize; to tools/list its tools or tools that are not a list of
\* tool records (the server g also a result without "tools" and one with
\* an empty array); to tools/call one text block
ServerResults(ch, req) ==
    CASE req.method = "initialize" ->
            {[kind |-> "capabilities", tools |-> <<>>, text |-> <<>>]}
      [] req.method = "tools/list" ->
            {[kind |-> "tools", tools |-> ServerTools(ch.name), text |-> <<>>],
             [kind |-> "undecodable", tools |-> <<>>, text |-> <<>>]}
            \cup {[kind |-> k, tools |-> <<>>, text |-> <<>>] :
                      k \in IF ch.name = GIT THEN {"missing", "empty_array"} ELSE {}}
      [] OTHER ->
            {[kind |-> "content", tools |-> <<>>,
              text |-> client_call_tool(ch.name, req.tool)]}

\* The next line of a child's stdout, as reader.next_line() gives it: the
\* response (a result or an error object) to a request not answered so
\* far, a notification, a line that is not JSON, an empty line, or the end
\* of the stream (the process has closed its stdout, or has exited)
Lines(ch) ==
    LET line(kind, id, error, result, exited) ==
            [kind |-> kind, id |-> id, error |-> error, result |-> result,
             exited |-> exited]
        eof == {line("eof", 0, FALSE, NoResult, x) : x \in BOOLEAN}
        responses ==
            UNION {{line("response", req.id, FALSE, res, FALSE) :
                        res \in ServerResults(ch, req)}
                   \cup {line("response", req.id, TRUE, ServerError(req), FALSE)} :
                   req \in ch.unanswered}
        others == {line(kind, 0, FALSE, NoResult, FALSE) :
                      kind \in {"notification", "log", "empty"}}
    IN  IF ch.state # "running" THEN eof ELSE eof \cup responses \cup others

\* (mutant) the first response read is taken for the answer
id_matches_any(line, id) == line.kind = "response"

\* msg.get("id").and_then(|v| v.as_u64()) == Some(id)
id_matches(line, id) == line.kind = "response" /\ line.id = id

\* (mutant) the end of the stream is taken for one more line to skip
next_line_past_eof(id, line) ==
    CASE line.kind = "eof" -> "continue"
      [] line.kind = "empty" -> "continue"
      [] line.kind = "log" -> "invalid"
      [] id_matches(line, id) -> IF line.error THEN "error" ELSE "result"
      [] OTHER -> "continue"

\* McpClient::send_request, one turn of the read loop: None ends the request
\* with the closed-connection error, an empty line is skipped, a line that
\* is not JSON ends the request with the parse error, a message with the
\* request's id ends it with the error object or the result, any other
\* message is skipped
next_line(id, line) ==
    CASE line.kind = "eof" -> "closed"
      [] line.kind = "empty" -> "continue"
      [] line.kind = "log" -> "invalid"
      [] id_matches(line, id) -> IF line.error THEN "error" ELSE "result"
      [] OTHER -> "continue"

\* The errors of the client and of the manager (McpError_bare is a mutant:
\* the error object is left out)
NotFound(name) == <<"MCP server '">> \o name \o <<"' not found in config">>
Disabled(name) == <<"MCP server '">> \o name \o <<"' is disabled">>
ServerClosed(name) == <<"MCP server '">> \o name \o <<"' closed connection">>
McpError_bare(error) == <<"MCP error: ">>
McpError(error) == <<"MCP error: ">> \o error
SpawnError == <<"No such file or directory (os error 2)">>
BrokenPipe == <<"Broken pipe (os error 32)">>
InvalidJson == <<"expected value at line 1 column 1">>
InvalidTools == <<"invalid type: expected a sequence">>

\* The error a request ends with
request_error(name, outcome, line) ==
    CASE outcome = "closed" -> ServerClosed(name)
      [] outcome = "invalid" -> InvalidJson
      [] OTHER -> McpError(line.result.text)

\* (mutant) tools that do not decode are taken for no tools
fetch_tools_lenient(result) == [ok |-> TRUE, tools |-> result.tools]

\* (mutant) a result without "tools" is an error
fetch_tools_required(result) ==
    IF result.kind \in {"undecodable", "missing"} THEN [ok |-> FALSE, tools |-> <<>>]
    ELSE [ok |-> TRUE, tools |-> result.tools]

\* McpClient::fetch_tools: result.get("tools"), an empty list when there is
\* none, decoded as Vec<McpTool>
fetch_tools(result) ==
    IF result.kind = "undecodable" THEN [ok |-> FALSE, tools |-> <<>>]
    ELSE [ok |-> TRUE, tools |-> IF result.kind = "missing" THEN <<>> ELSE result.tools]

\* (mutant) HashMap::entry(k).or_insert(v): an entry that exists is kept
insert_absent(m, k, v) ==
    [n \in DOMAIN m \cup {k} |-> IF n \in DOMAIN m THEN m[n] ELSE v]

\* HashMap::insert: the entry is added, or replaces the one with that key
insert(m, k, v) ==
    [n \in DOMAIN m \cup {k} |-> IF n = k THEN v ELSE m[n]]

\* connect_all: the names of the configured servers that are not disabled
connect_all_names == {n \in DOMAIN configs : ~configs[n].disabled}

\* (mutant) the definitions come in another order at the second call
catalog_unstable ==
    LET defs == tool_definitions(clients)
    IN  IF catalogs = <<>> THEN defs
        ELSE [k \in 1..Len(defs) |-> defs[Len(defs) + 1 - k]]

\* mcp.tool_definitions() on the manager as it is
catalog == tool_definitions(clients)

\* An operation of the manager: the method, the server, the request it
\* awaits the response of on which child, and for connect_all the names
\* left and the attempts made; once returned, its result
Blank ==
    [kind |-> "none", of |-> "none", pc |-> "none", name |-> <<>>, id |-> 0,
     child |-> 0, tool |-> <<>>, all |-> FALSE, todo |-> {}, attempted |-> <<>>,
     stale |-> FALSE, ok |-> TRUE, text |-> <<>>]

\* No method of the manager is running
Idle == op.kind \in {"none", "returned"}

\* The operation returns to its caller
Returned(o, ok, text) ==
    [Blank EXCEPT !.kind = "returned", !.of = o.of, !.name = o.name,
                  !.attempted = o.attempted, !.stale = o.stale, !.ok = ok,
                  !.text = text]

\* (mutant) `self.connect(&name).await?`: connect_all returns the first error
connect_returns_propagate(o, ok, text) ==
    IF o.all /\ ok
    THEN [Blank EXCEPT !.kind = "connect_all", !.of = "connect_all", !.pc = "next",
                       !.all = TRUE, !.todo = o.todo,
                       !.attempted = Append(o.attempted, [name |-> o.name, ok |-> ok])]
    ELSE [Blank EXCEPT !.kind = "returned", !.of = o.of, !.name = o.name,
                       !.attempted = o.attempted, !.stale = o.stale, !.ok = ok,
                       !.text = text]

\* McpManager::connect returns: to its caller, or to the loop of
\* connect_all, which drops the result (`let _ =`)
connect_returns(o, ok, text) ==
    IF o.all
    THEN [Blank EXCEPT !.kind = "connect_all", !.of = "connect_all", !.pc = "next",
                       !.all = TRUE, !.todo = o.todo,
                       !.attempted = Append(o.attempted, [name |-> o.name, ok |-> ok])]
    ELSE Returned(o, ok, text)

\* McpManager::connect(name), up to the first await of a response: the
\* name is looked up, a disabled server refused, the process spawned and
\* the initialize request written
McpManager_connect(o) ==
    IF o.name \notin DOMAIN configs
    THEN /\ op' = connect_returns(o, FALSE, NotFound(o.name))
         /\ UNCHANGED <<children, spawned>>
    ELSE IF configs[o.name].disabled
    THEN /\ op' = connect_returns(o, FALSE, Disabled(o.name))
         /\ UNCHANGED <<children, spawned>>
    ELSE /\ spawned < MaxSpawns
         /\ \/ /\ op' = connect_returns(o, FALSE, SpawnError)
               /\ UNCHANGED <<children, spawned>>
            \/ /\ spawned' = spawned + 1
               /\ children' = insert(children, spawned + 1,
                                  write_all(Child(o.name), request("initialize", 1, <<>>)))
               /\ op' = [o EXCEPT !.kind = "connect", !.pc = "initialize", !.id = 1,
                                  !.child = spawned + 1]

\* A caller calls McpManager::connect(name)
Connect(name) ==
    /\ Idle
    /\ McpManager_connect([Blank EXCEPT !.of = "connect", !.name = name])
    /\ last_line' = "none"
    /\ catalogs' = <<>>
    /\ UNCHANGED <<clients, conns, outside_manager>>

\* A caller calls McpManager::connect_all: the names are collected
ConnectAll ==
    /\ Idle
    /\ spawned + Cardinality(connect_all_names) <= MaxSpawns
    /\ op' = [Blank EXCEPT !.kind = "connect_all", !.of = "connect_all", !.pc = "next",
                           !.all = TRUE, !.todo = connect_all_names]
    /\ last_line' = "none"
    /\ catalogs' = <<>>
    /\ UNCHANGED <<clients, conns, children, spawned, outside_manager>>

\* `for name in names { let _ = self.connect(&name).await; }`: the next
\* name, in the order the map's iterator gave them (as in
\* tool_definitions), or the return when none is left
NextName ==
    /\ op.kind = "connect_all"
    /\ op.pc = "next"
    /\ IF op.todo = {}
       THEN /\ op' = Returned(op, TRUE, <<>>)
            /\ UNCHANGED <<children, spawned>>
       ELSE LET name == CHOOSE n \in op.todo : TRUE
            IN  McpManager_connect([op EXCEPT !.name = name, !.todo = @ \ {name}])
    /\ last_line' = "none"
    /\ UNCHANGED <<clients, conns, catalogs, outside_manager>>

\* A caller calls McpManager::call_tool(full_name): the name is routed and the
\* tools/call request written to the client's child (the write fails when
\* the process has exited)
CallTool(full_name) ==
    LET r == call_tool(clients, full_name)
        o == [Blank EXCEPT !.of = "call", !.name = r.server_name, !.tool = r.tool_name]
    IN  /\ Idle
        /\ IF ~r.ok
           THEN /\ op' = Returned(o, FALSE, r.text)
                /\ UNCHANGED <<conns, children>>
           ELSE LET conn == conns[r.server_name]
                    ch == children[conn.child]
                    sent == [o EXCEPT !.child = conn.child, !.id = conn.next_id]
                IN  /\ conn.next_id < connect(r.server_name).next_id + MaxCalls
                    /\ IF ch.state = "exited"
                       THEN /\ conns' = [conns EXCEPT ![r.server_name].next_id = @ + 1]
                            /\ op' = Returned(sent, FALSE, BrokenPipe)
                            /\ UNCHANGED children
                       ELSE /\ conns' = [conns EXCEPT ![r.server_name] = send_request(@)]
                            /\ children' =
                                 [children EXCEPT ![conn.child] =
                                     write_all(@, request("tools/call", conn.next_id,
                                                          r.tool_name))]
                            /\ op' = [sent EXCEPT !.kind = "call", !.pc = "tools/call"]
        /\ last_line' = "none"
        /\ UNCHANGED <<clients, spawned, catalogs, outside_manager>>

\* What a line was: a notification, a line that is not JSON, an empty line,
\* the end of the stream, the response to another request, an error
\* object, or the kind of result
label(line, outcome) ==
    IF line.kind # "response" THEN line.kind
    ELSE IF outcome = "continue" THEN "other"
    ELSE IF line.error THEN "error" ELSE line.result.kind

\* The child after a line of its stdout was read
served(ch, line) ==
    [ch EXCEPT !.unanswered = {req \in @ : line.kind # "response" \/ req.id # line.id},
               !.eof = @ \/ line.kind = "eof",
               !.state = IF line.kind # "eof" THEN @
                         ELSE IF line.exited THEN "exited" ELSE "closed"]

\* (mutant) a call that has returned empties the tools of its client
tools_after_call_cleared(cl, name) == [cl EXCEPT ![name] = <<>>]

\* McpClient::call_tool reads self.tools nowhere and writes it nowhere: the
\* clients' snapshots after a call are the ones before it
tools_after_call(cl, name) == cl

\* The connection after its request has returned
returned_to(conn, id) == [conn EXCEPT !.outstanding = SelectSeq(@, LAMBDA x : x # id)]

\* reader.next_line() gives the request that is awaited a line
ReadLine ==
    /\ op.kind \in {"connect", "call"}
    /\ \E line \in Lines(children[op.child]) :
          LET c == op.child
              after == served(children[c], line)
              outcome == next_line(op.id, line)
              o == [op EXCEPT !.stale = @ \/ (outcome = "continue" /\ line.kind = "response")]
              tools == fetch_tools(line.result)
          IN  /\ last_line' = label(line, outcome)
              /\ CASE outcome = "continue" ->
                        /\ op' = o
                        /\ children' = [children EXCEPT ![c] = after]
                        /\ UNCHANGED <<clients, conns, catalogs>>
                   [] outcome # "continue" /\ op.kind = "call" ->
                        /\ op' = Returned(o, outcome = "result",
                                          IF outcome = "result" THEN line.result.text
                                          ELSE request_error(op.name, outcome, line))
                        /\ children' = [children EXCEPT ![c] = after]
                        /\ conns' = [conns EXCEPT ![op.name] = returned_to(@, op.id)]
                        /\ clients' = tools_after_call(clients, op.name)
                        /\ UNCHANGED catalogs
                   [] outcome = "result" /\ op.kind = "connect" /\ op.pc = "initialize" ->
                        /\ op' = [o EXCEPT !.pc = "tools/list", !.id = 2]
                        /\ children' =
                             [children EXCEPT ![c] =
                                 write_all(write_all(after,
                                     request("notifications/initialized", 0, <<>>)),
                                     request("tools/list", 2, <<>>))]
                        /\ UNCHANGED <<clients, conns, catalogs>>
                   [] outcome = "result" /\ op.kind = "connect" /\ op.pc = "tools/list"
                      /\ tools.ok ->
                        /\ op' = connect_returns(o, TRUE, <<>>)
                        /\ clients' = insert(clients, op.name, tools.tools)
                        /\ conns' = insert(conns, op.name, connect(op.name) @@ [child |-> c])
                        /\ children' =
                             kill([children EXCEPT ![c] = after],
                                  {conns[n].child : n \in DOMAIN conns \cap {op.name}})
                        /\ catalogs' = <<>>
                   [] OTHER ->
                        /\ op' = connect_returns(o, FALSE,
                                     IF outcome = "result" THEN InvalidTools
                                     ELSE request_error(op.name, outcome, line))
                        /\ children' = kill(children, {c})
                        /\ UNCHANGED <<clients, conns, catalogs>>
    /\ UNCHANGED <<spawned, outside_manager>>

\* A caller asks the manager for its tool definitions
Catalog ==
    /\ Idle
    /\ catalogs' = IF catalogs = <<>> THEN <<catalog>>
                    ELSE <<catalogs[Len(catalogs)], catalog>>
    /\ UNCHANGED <<clients, conns, children, spawned, op, last_line, outside_manager>>

ClientInit ==
    /\ AgentIdle
    /\ FacadeIdle
    /\ ClientIdle
    /\ clients = [n \in {} |-> <<>>]
    /\ conns = [n \in {} |-> connect(n)]
    /\ shell = NoShell
    /\ http = NoHttp
    /\ task = NoTask

ClientNext ==
    \/ \E name \in ConnectNames : Connect(name)
    \/ ConnectAll
    \/ NextName
    \/ \E full_name \in CallNames : CallTool(full_name)
    \/ ReadLine
    \/ Catalog

ClientSpec == ClientInit /\ [][ClientNext]_vars

(* ---------- spawn_agent_task and the busy tracker, taken alone ---------- *)

\* broadcast::channel::<AppMessage>(256): the number of messages the
\* channel retains for a receiver that has not received them yet
Capacity == 256

\* The turns of the run_agent_loop looked at
MaxTurns == 1

\* The numbers of observer events (one per line of text, per tool call, per
\* tool result) the loop sends to tx in one turn: none, one, as many as the
\* broadcast channel retains
EventCounts == {0, 1, Capacity}

\* What the task leaves alone
outside_task ==
    <<messages_lock, pending_user_messages, loops, clients, tool_defs, delivered,
      tool_turns, next_id, facade_vars, client_vars, shell, http>>

\* broadcast::Sender::send never waits: on a full channel the oldest
\* retained message is overwritten, and a receiver that had not received it
\* has lagged
overwrites(ring) == Len(ring) = Capacity

broadcast_send(ring, msg) ==
    IF overwrites(ring) THEN Append(Tail(ring), msg) ELSE Append(ring, msg)

\* Enter on a text while not busy: UserMessage and AgentTaskStarted are
\* sent and spawn_agent_task spawns the task and, in it, the forwarder
TaskStart ==
    /\ task.pc = "none"
    /\ ~busy
    /\ submits < MaxSubmits
    /\ submits' = submits + 1
    /\ bcast' = broadcast_send(broadcast_send(bcast, "UserMessage"), "AgentTaskStarted")
    /\ task' = [task EXCEPT !.pc = "start",
                            !.lagged = @ \/ Len(bcast) + 2 > Capacity]
    /\ UNCHANGED <<messages, busy, outside_task>>

\* the task pushes the user message and enters run_agent_loop; the
\* forwarder waits in rx.recv()
TaskPush ==
    /\ task.pc = "start"
    /\ \E text \in UserTexts : messages' = Append(messages, TextMessage("user", text))
    /\ task' = [task EXCEPT !.pc = "loop", !.forwarder = "running"]
    /\ UNCHANGED <<busy, bcast, submits, outside_task>>

\* one turn of run_agent_loop: tx.send for every event of the response and
\* of the executions
TaskTurn ==
    /\ task.pc = "loop"
    /\ task.turns < MaxTurns
    /\ \E n \in EventCounts :
          task' = [task EXCEPT !.turns = @ + 1, !.events = @ + n]
    /\ UNCHANGED <<messages, busy, bcast, submits, outside_task>>

\* run_agent_loop returns, Ok(()) after a turn or the error of a send, and
\* tx is dropped with it; the task waits in forwarder.await
TaskReturn ==
    /\ task.pc = "loop"
    /\ \E result \in {"Ok", "Err"} :
          /\ result = "Ok" => task.turns > 0
          /\ task' = [task EXCEPT !.pc = "join", !.result = result]
    /\ UNCHANGED <<messages, busy, bcast, submits, outside_task>>

\* the forwarder receives one event and sends its AppMessage
Forward ==
    /\ task.forwarder = "running"
    /\ task.events > 0
    /\ bcast' = broadcast_send(bcast, "AssistantLine")
    /\ task' = [task EXCEPT !.events = @ - 1, !.lagged = @ \/ overwrites(bcast)]
    /\ UNCHANGED <<messages, busy, submits, outside_task>>

\* rx.recv() returns None, tx dropped and no event left: the forwarder ends
ForwarderEnd ==
    /\ task.forwarder = "running"
    /\ task.events = 0
    /\ task.pc = "join"
    /\ task' = [task EXCEPT !.forwarder = "finished"]
    /\ UNCHANGED <<messages, busy, bcast, submits, outside_task>>

\* `let _ = forwarder.await;` comes before the match on the result
announce_guard(t) == t.pc = "join" /\ t.forwarder = "finished"

\* match result { Ok(()) => send(AgentCompleted), Err(e) => send(AgentError) }
Announce ==
    /\ announce_guard(task)
    /\ LET msg == IF task.result = "Ok" THEN "AgentCompleted" ELSE "AgentError"
       IN  /\ bcast' = broadcast_send(bcast, msg)
           /\ task' = [task EXCEPT !.pc = "ended", !.sent = Append(@, msg),
                                   !.lagged = @ \/ overwrites(bcast)]
    /\ UNCHANGED <<messages, busy, submits, outside_task>>

\* the busy tracker's `while let Ok(msg) = rx.recv().await`: the next
\* message sets the flag, or is none of the three; Err(Lagged) ends the
\* loop and with it the future
TrackerRecv ==
    /\ task.tracker = "receiving"
    /\ IF task.lagged
       THEN /\ task' = [task EXCEPT !.tracker = "ended"]
            /\ UNCHANGED <<busy, bcast>>
       ELSE /\ bcast # <<>>
            /\ busy' = IF Head(bcast) = "AgentTaskStarted" THEN TRUE
                       ELSE IF Head(bcast) \in {"AgentCompleted", "AgentError"} THEN FALSE
                       ELSE busy
            /\ bcast' = Tail(bcast)
            /\ UNCHANGED task
    /\ UNCHANGED <<messages, submits, outside_task>>

TaskInit ==
    /\ AgentIdle
    /\ FacadeIdle
    /\ ClientIdle
    /\ clients = [n \in {} |-> <<>>]
    /\ conns = [n \in {} |-> connect(n)]
    /\ shell = NoShell
    /\ http = NoHttp
    /\ task = NoTask

TaskNext ==
    \/ TaskStart
    \/ TaskPush
    \/ TaskTurn
    \/ TaskReturn
    \/ Forward
    \/ ForwarderEnd
    \/ Announce
    \/ TrackerRecv

\* The runtime runs the task, the forwarder and the busy tracker whenever
\* they can make a step, and the loop terminates
TaskSpec ==
    /\ TaskInit /\ [][TaskNext]_vars
    /\ WF_vars(TaskPush \/ TaskTurn \/ TaskReturn \/ Announce)
    /\ WF_vars(Forward \/ ForwarderEnd)
    /\ WF_vars(TrackerRecv)

(* ------------------------------- claims -------------------------------- *)

Last(q) == q[Len(q)]

Ids(blocks, type) ==
    LET sel == SelectSeq(blocks, LAMBDA b : b.type = type)
    IN  [k \in 1..Len(sel) |-> sel[k].id]

ToolResultOnly(m) ==
    /\ m.kind = "Blocks"
    /\ m.blocks # <<>>
    /\ \A k \in 1..Len(m.blocks) : m.blocks[k].type = "tool_result"

\* The step of loop l that ends the execution of its tool call number i
ExecutionEnds(l) ==
    /\ loops[l].pc = "executing"
    /\ loops'[l].i = loops[l].i + 1

\* C1: every message made of tool results only is immediately preceded by
\* the message whose tool_use ids are, in the same order, the ids it
\* references.
C1_Adjacency ==
    \A k \in 1..Len(messages) :
        ToolResultOnly(messages[k]) =>
            /\ k > 1
            /\ Ids(messages[k - 1].blocks, "tool_use") = Ids(messages[k].blocks, "tool_result")

\* C2: the user message pushed after the executions of a turn with n >= 1
\* tool_use blocks has exactly n tool_result blocks, the k-th with the id of
\* the k-th tool_use of the response, whatever the outcomes.
C2_OneResultPerToolUse ==
    [][\A l \in LoopIds :
          (loops[l].pc = "push_results" /\ loops'[l].pc # "push_results") =>
              LET uses == Ids(loops[l].response, "tool_use")
                  m == Last(messages')
              IN  /\ Len(uses) >= 1
                  /\ messages' = Append(messages, m)
                  /\ m.role = "user"
                  /\ m.kind = "Blocks"
                  /\ Len(m.blocks) = Len(uses)
                  /\ \A k \in 1..Len(uses) :
                        /\ m.blocks[k].type = "tool_result"
                        /\ m.blocks[k].id = uses[k]]_vars

\* C2 witness: a pushed result message with two results, the first of a
\* failed execution
C2_Witness ==
    \E k \in 1..Len(messages) :
        /\ ToolResultOnly(messages[k])
        /\ Len(messages[k].blocks) = 2
        /\ messages[k].blocks[1].is_error = "Some(true)"

\* C3: when the send fails the loop returns the error at once and the
\* conversation is left as it is: nothing is appended, nothing appended by
\* earlier iterations is removed or modified.
C3_SendFailureKeepsConversation ==
    [][\A l \in LoopIds :
          /\ (loops[l].pc = "send" /\ loops'[l].pc = "failed") =>
                /\ messages' = messages
                /\ loops'[l].result = "Err"
          /\ loops[l].pc = "failed" => loops'[l].pc \in {"failed", "end"}
          /\ (loops[l].pc = "failed" /\ loops'[l].pc = "end") =>
                /\ messages' = messages
                /\ bcast' = Append(bcast, "AgentError")]_vars

\* C3 witness: a loop failed in a later iteration, the messages of the
\* earlier iteration are in the conversation
C3_Witness ==
    \E l \in LoopIds :
        /\ loops[l].pc = "failed"
        /\ Len(messages) >= 3
        /\ ToolResultOnly(Last(messages))

\* C4: a turn without tool_use appends exactly one assistant message with
\* the response, runs no tool, and the loop is terminal with Ok: it makes
\* no further step but the broadcast of its completion.
C4_NoToolUseIsTerminal ==
    [][\A l \in LoopIds :
          /\ (/\ loops[l].pc = "send"
              /\ loops'[l].pc \notin {"send", "failed"}
              /\ Ids(loops'[l].response, "tool_use") = <<>>) =>
                /\ messages' = Append(messages,
                                      BlocksMessage("assistant", loops'[l].response))
                /\ loops'[l].pc = "done"
                /\ loops'[l].result = "Ok"
                /\ loops'[l].results = <<>>
                /\ delivered' = delivered
          /\ loops[l].pc = "done" => loops'[l].pc \in {"done", "end"}
          /\ (loops[l].pc = "done" /\ loops'[l].pc = "end") =>
                /\ messages' = messages
                /\ delivered' = delivered
                /\ bcast' = Append(bcast, "AgentCompleted")]_vars

\* C4 witness: a loop is terminal after a text-only turn
C4_Witness ==
    \E l \in LoopIds :
        /\ loops[l].pc = "done"
        /\ messages # <<>>
        /\ Last(messages) = BlocksMessage("assistant", <<TextBlock(<<"done">>)>>)

\* The control flow of the loop between two sends: from each position the
\* positions the next step of the loop can lead to
FlowAfter(pc) ==
    CASE pc = "executing" -> {"executing", "push_results"}
      [] pc = "push_results" -> {"drain"}
      [] pc = "drain" -> {"push_pending", "snapshot"}
      [] pc = "push_pending" -> {"snapshot"}
      [] pc = "snapshot" -> {"send"}
      [] OTHER -> {}

\* C5: the loop returns Ok only from a turn without tool_use and fails only
\* on a failed send; after a turn with tool_use, whatever the executions'
\* outcomes, its only way on is through the results message and the
\* drain to the next send; while executing there is a tool call to end.
C5_RepeatsUntilNoToolUse ==
    [][\A l \in LoopIds :
          /\ (loops'[l].pc = "done" /\ loops[l].pc # "done") =>
                /\ loops[l].pc = "send"
                /\ Ids(loops'[l].response, "tool_use") = <<>>
          /\ (loops'[l].pc = "failed" /\ loops[l].pc # "failed") => loops[l].pc = "send"
          /\ (loops[l].pc = "send" /\ loops'[l].pc \notin {"send", "failed"}
              /\ Ids(loops'[l].response, "tool_use") # <<>>) =>
                loops'[l].pc = "executing"
          /\ (FlowAfter(loops[l].pc) # {} /\ loops'[l] # loops[l]) =>
                loops'[l].pc \in FlowAfter(loops[l].pc)
          /\ (loops[l].pc = "push_results" /\ loops'[l].pc = "drain") =>
                messages' = Append(messages, BlocksMessage("user", loops[l].results))
          /\ loops[l].pc = "executing" => loops[l].i \in 1..Len(loops[l].tool_calls)]_vars

\* C5 witness: after an execution that failed the loop has appended the
\* results and is at its next send
C5_Witness ==
    \E l \in LoopIds :
        /\ loops[l].pc = "send"
        /\ \E k \in 1..Len(loops[l].snapshot) :
              /\ ToolResultOnly(loops[l].snapshot[k])
              /\ loops[l].snapshot[k].blocks[1].is_error = "Some(true)"

\* The execution of a tool call failed as C6 understands it: the name cannot
\* be resolved or routed, or the shell command failed
C6_Failed(call, proc) ==
    \/ call.name # BASH /\ ~call_tool(clients, call.name).ok
    \/ call.name = BASH /\ (~proc.spawned \/ proc.code # 0)

Range(q) == {q[k] : k \in 1..Len(q)}

\* The positions at which the loop has handed its catalog to the send of
\* the current iteration
Sent == {"executing", "push_results", "drain", "push_pending", "done", "failed"}

C9_OneAgentLoop ==
    Cardinality({l \in LoopIds : loops[l].pc \in InLoop}) <= 1

\* C10: at no time are two tool executions in progress, and a tool call is
\* in execution only when those before it in the turn have their results.
C10_SequentialExecution ==
    /\ Cardinality({l \in LoopIds : loops[l].pc = "executing"}) <= 1
    /\ \A l \in LoopIds :
          loops[l].pc = "executing" => Len(loops[l].results) = loops[l].i - 1

\* C11: whenever a user input is in the pending queue, a loop eventually
\* drains it to append it to the conversation before its next send.
C11_QueuedInputIsSent ==
    (pending_user_messages # <<>>) ~> (\E l \in LoopIds : loops[l].pc = "push_pending")

\* C12: after the tool-result message of an iteration is appended the loop
\* drains the whole pending queue, leaving it empty; k >= 1 drained entries
\* are appended as one user Text message, the entries joined by a blank line
\* in queue order, directly after that tool-result message; with nothing
\* queued the loop appends nothing before its next snapshot.
C12_DrainAfterResults ==
    [][\A l \in LoopIds :
          /\ (loops[l].pc = "drain" /\ loops'[l].pc # "drain") =>
                /\ pending_user_messages' = <<>>
                /\ messages' = messages
                /\ IF pending_user_messages = <<>>
                   THEN loops'[l].pc = "snapshot"
                   ELSE /\ loops'[l].pc = "push_pending"
                        /\ loops'[l].pending = pending_user_messages
          /\ (loops[l].pc = "push_pending" /\ loops'[l].pc # "push_pending") =>
                /\ messages # <<>>
                /\ Last(messages) = BlocksMessage("user", loops[l].results)
                /\ messages' = Append(messages,
                                      TextMessage("user", join(loops[l].pending)))
                /\ loops'[l].pc = "snapshot"]_vars

\* C13: while a task of the agent loop waits on Transport.send or on a tool
\* execution the Conversation mutex is held by no one, and the /new clear
\* can take it at once.
C13_NoLockAcrossIO ==
    \A l \in LoopIds :
        loops[l].pc \in {"send", "executing"} =>
            /\ messages_lock = 0
            /\ ENABLED EnterNew

\* C13 witness: a clear took the lock while a loop, its snapshot made, was
\* waiting for the Transport to answer
C13_Witness ==
    \E l \in LoopIds :
        /\ loops[l].pc = "send"
        /\ loops[l].snapshot # <<>>
        /\ messages = <<>>
        /\ messages_lock = 0

\* The name does not contain the namespace separator
NoSeparator(name) == find(name, SEP) = -1

\* C14: for every posted (server, tool) pair whose names do not contain the
\* separator, the routing's parse of the namespaced name built from the
\* pair gives back the pair.
C14_RoundTrip ==
    \A h \in CallIds :
        LET c == calls[h]
        IN  (/\ c.origin = "facade"
             /\ c.pc # "lock"
             /\ NoSeparator(c.server)
             /\ NoSeparator(c.tool)) =>
                /\ c.full_name = namespaced(c.server, c.tool)
                /\ c.server_name = c.server
                /\ c.tool_name = c.tool

\* C15: the names of the local tool and of the namespaced tools of the
\* connected servers are pairwise distinct.
C15_DistinctNames ==
    LET names == definitions \o tool_definitions(clients)
    IN  \A i, j \in 1..Len(names) : i # j => names[i] # names[j]

\* The ways to read a name as prefix, k characters, separator, rest
Cuts(name) ==
    LET p == Len(MCP_PREFIX)
    IN  {k \in 0..(Len(name) - p - Len(SEP)) :
            /\ SubSeq(name, 1, p) = MCP_PREFIX
            /\ SubSeq(name, p + k + 1, p + k + Len(SEP)) = SEP}

FirstCut(name) == CHOOSE k \in Cuts(name) : \A j \in Cuts(name) : k <= j

CutServer(name) == SubSeq(name, Len(MCP_PREFIX) + 1, Len(MCP_PREFIX) + FirstCut(name))

CutTool(name) ==
    SubSeq(name, Len(MCP_PREFIX) + FirstCut(name) + Len(SEP) + 1, Len(name))

\* The step in which the registry routes call h
Routes(h) == calls[h].pc = "lock" /\ calls'[h].pc # "lock"

\* C16: a name that reads as prefix, server, separator, tool (split at the
\* first separator after the prefix) with a connected server has exactly one
\* request written, to that server's connection, for that tool; a name
\* without the prefix or without a separator after it is answered with the
\* error "Invalid MCP tool name" and nothing is written to any connection.
C16_RegistryRouting ==
    [][\A h \in CallIds :
          Routes(h) =>
              LET name == calls[h].full_name
              IN  IF Cuts(name) = {}
                  THEN /\ calls'[h].pc = "responded"
                       /\ calls'[h].status = 500
                       /\ calls'[h].text = <<"Invalid MCP tool name: ">> \o name
                       /\ conns' = conns
                       /\ delivered' = delivered
                  ELSE CutServer(name) \in DOMAIN clients =>
                       /\ calls'[h].pc = "waiting"
                       /\ delivered' = Append(delivered, [server |-> CutServer(name),
                                                          tool |-> CutTool(name)])
                       /\ conns'[CutServer(name)].outstanding =
                             Append(conns[CutServer(name)].outstanding, calls'[h].id)
                       /\ \A n \in DOMAIN conns \ {CutServer(name)} :
                             conns'[n] = conns[n]]_vars

\* C16 witness: mcp__g__s is with connection g for tool s, after mcp__g
\* (no tool component) was refused
C16_Witness ==
    \E h1, h2 \in CallIds :
        /\ calls[h1].full_name = namespaced(GIT, STATUS)
        /\ calls[h1].pc = "waiting"
        /\ conns[GIT].outstanding = <<calls[h1].id>>
        /\ Last(delivered) = [server |-> GIT, tool |-> STATUS]
        /\ calls[h2].full_name = MCP_PREFIX \o GIT
        /\ calls[h2].status = 500

\* C17: a call whose parsed server is not configured, is disabled, or is
\* configured and not connected is answered with the error "MCP server
\* '<server>' not connected"; no server is connected by it, nothing is
\* written to any connection, the registry is as it was.
C17_UnroutableServer ==
    [][\A h \in CallIds :
          (/\ Routes(h)
           /\ Cuts(calls[h].full_name) # {}
           /\ CutServer(calls[h].full_name) \notin DOMAIN clients) =>
              /\ calls'[h].pc = "responded"
              /\ calls'[h].status = 500
              /\ calls'[h].text = <<"MCP server '">> \o CutServer(calls[h].full_name)
                                    \o <<"' not connected">>
              /\ clients' = clients
              /\ conns' = conns
              /\ delivered' = delivered
              /\ mcp_lock' = 0]_vars

\* C17 witness: with another server connected, a call for the disabled
\* server and a call for a configured server that did not connect were
\* refused and no request was written
C17_Witness ==
    \E h1, h2 \in CallIds :
        /\ GIT \notin DOMAIN clients
        /\ GIT_ \in DOMAIN clients
        /\ calls[h1].server = OFF
        /\ configs[OFF].disabled
        /\ calls[h1].status = 500
        /\ calls[h2].server = GIT
        /\ ~configs[GIT].disabled
        /\ calls[h2].status = 500
        /\ delivered = <<>>
        /\ conns[GIT_].outstanding = <<>>

\* C18: a request posted with {server, tool} has exactly that tool called on
\* the connection of that server and is answered 200 with the call's text;
\* it is answered 500 with an error text when that server is not connected
\* or the call fails; no tool is called on any other connection.
C18_FacadeCallsNamedTool ==
    [][\A h \in CallIds :
          LET c == calls[h]
          IN  c.origin = "facade" =>
                /\ Routes(h) =>
                      IF c.server \in DOMAIN clients
                      THEN /\ calls'[h].pc = "waiting"
                           /\ delivered' = Append(delivered, [server |-> c.server,
                                                              tool |-> c.tool])
                      ELSE /\ calls'[h].pc = "responded"
                           /\ calls'[h].status = 500
                           /\ calls'[h].text # <<>>
                           /\ delivered' = delivered
                /\ (c.pc = "waiting" /\ calls'[h].pc = "responded") =>
                      /\ delivered' = delivered
                      /\ \/ /\ calls'[h].status = 200
                            /\ calls'[h].text = client_call_tool(c.server, c.tool)
                         \/ /\ calls'[h].status = 500
                            /\ calls'[h].text # <<>>]_vars

\* The connection a call at the lock would be routed to
Target(h) == call_tool(clients, calls[h].full_name)

\* C19: while a call on one connection waits for its response, a call for
\* another connected server can be routed and written to its connection.
C19_IndependentConnections ==
    \A h1, h2 \in CallIds :
        (/\ calls[h1].pc = "waiting"
         /\ calls[h2].pc = "lock"
         /\ Target(h2).ok
         /\ Target(h2).server_name # calls[h1].server_name) => ENABLED Route(h2)

\* C20: every connection has at most one request written and not yet
\* answered, and a request is written to a connection only when none is
\* outstanding on it.
C20_OneOutstandingRequest ==
    [][/\ \A n \in DOMAIN conns : Len(conns[n].outstanding) <= 1
       /\ \A h \in CallIds :
             (Routes(h) /\ calls'[h].pc = "waiting") =>
                 /\ conns[calls'[h].server_name].outstanding = <<>>
                 /\ conns'[calls'[h].server_name].outstanding = <<calls'[h].id>>]_vars

\* C20 witness: two callers of one connection, the request of the first is
\* outstanding, the second has not been written
C20_Witness ==
    \E h1, h2 \in CallIds :
        /\ calls[h1].pc = "waiting"
        /\ calls[h2].pc = "lock"
        /\ Target(h2).ok
        /\ Target(h2).server_name = calls[h1].server_name
        /\ conns[calls[h1].server_name].outstanding = <<calls[h1].id>>

\* The text ends with the exit code trailer for code n
EndsWithTrailer(text, n) ==
    /\ Len(text) >= 3
    /\ SubSeq(text, Len(text) - 2, Len(text)) = <<"\n[exit code: ", ToString(n), "]">>

\* The [stderr] section: the marker followed by all of stderr
StderrSection(stderr) == <<"[stderr]\n">> \o stderr

\* C29: the result of a shell run starts with stdout; the [stderr] marker
\* followed by stderr comes next exactly when stderr is not empty; the
\* trailer "\n[exit code: N]" ends the text exactly when the exit status
\* is not zero, and nothing else is in the text but the newline that parts
\* stdout from the marker.  "ok" with status 0 gives exactly "ok"; no
\* output with status 3 gives a text ending in "\n[exit code: 3]".
C29_ShellResultComposition ==
    (shell.pc = "done" /\ shell.proc.spawned) =>
        LET p == shell.proc
            text == shell.result.text
            body == IF p.code # 0 THEN SubSeq(text, 1, Len(text) - 3) ELSE text
            tail == SubSeq(body, Len(p.stdout) + 1, Len(body))
        IN  /\ shell.result.ok
            /\ (p.code # 0) <=> EndsWithTrailer(text, p.code)
            /\ "\n[exit code: " \in Range(text) <=> p.code # 0
            /\ Len(body) >= Len(p.stdout)
            /\ SubSeq(body, 1, Len(p.stdout)) = p.stdout
            /\ IF p.stderr = <<>> THEN tail = <<>>
               ELSE tail \in {StderrSection(p.stderr), <<"\n">> \o StderrSection(p.stderr)}
            /\ (p.stdout = <<"ok">> /\ p.stderr = <<>> /\ p.code = 0) => text = <<"ok">>
            /\ (p.stdout = <<>> /\ p.stderr = <<>> /\ p.code = 3) =>
                  text = <<"\n[exit code: ", "3", "]">>

\* C29 witness: a run with output on both streams and a non-zero status
C29_Witness ==
    /\ shell.pc = "done"
    /\ shell.proc.spawned
    /\ shell.proc.stdout = <<"ok">>
    /\ shell.proc.stderr = <<"warn">>
    /\ shell.proc.code = 3
    /\ shell.result.text = <<"ok", "\n", "[stderr]\n", "warn", "\n[exit code: ", "3", "]">>

\* The tokens of small occur in big, in order and next to each other
Contains(big, small) ==
    \E k \in 0..(Len(big) - Len(small)) : SubSeq(big, k + 1, k + Len(small)) = small

\* C27: a send makes exactly one POST; with a status outside 2xx it fails
\* with an error that holds the status code and the raw body; with a 2xx
\* status and a body that does not decode it fails too; a failed send has
\* still made one POST only.
C27_OnePostNoRetry ==
    /\ http.pc \in {"answered", "done"} => http.posts = 1
    /\ (http.pc = "done" /\ http.reached) =>
          /\ ~is_success(http.status) =>
                /\ ~http.result.ok
                /\ Contains(http.result.error, <<ToString(http.status)>>)
                /\ Contains(http.result.error, http.body.raw)
          /\ (is_success(http.status) /\ ~from_str(http.body).ok) => ~http.result.ok
          /\ (is_success(http.status) /\ from_str(http.body).ok) =>
                /\ http.result.ok
                /\ http.result.content = http.body.blocks

\* C27 witness: status 500 with body boom gave an error with both
C27_Witness ==
    /\ http.pc = "done"
    /\ http.posts = 1
    /\ http.status = 500
    /\ http.body.raw = <<"boom">>
    /\ http.result.error = <<"API error (", "500", "): ", "boom">>

\* C30: the step in which a send returns appends one assistant message whose
\* blocks are the returned blocks, all of them and in the received order,
\* before any tool of the turn has run; the steps that run the tools and
\* push the results come after it and append no assistant message.
C30_AssistantMessageVerbatim ==
    [][\A l \in LoopIds :
          /\ (loops[l].pc = "send" /\ loops'[l].pc \notin {"send", "failed"}) =>
                /\ \E content \in Responses(next_id) :
                      /\ messages' = Append(messages, BlocksMessage("assistant", content))
                      /\ loops'[l].tool_calls = ToolCalls(content)
                /\ loops'[l].results = <<>>
                /\ loops'[l].i = 1
                /\ delivered' = delivered
          /\ ExecutionEnds(l) => messages' = messages
          /\ (loops[l].pc = "push_results" /\ loops'[l].pc # "push_results") =>
                /\ messages' = Append(messages, BlocksMessage("user", loops[l].results))
                /\ Len(loops[l].results) = Len(loops[l].tool_calls)]_vars

\* C30 witness: the assistant message with an empty text block, two
\* tool_use blocks and a block of another kind is in the conversation and
\* the first tool of the turn has not returned
C30_Witness ==
    \E l \in LoopIds :
        /\ loops[l].pc = "executing"
        /\ loops[l].results = <<>>
        /\ Len(loops[l].response) = 4
        /\ loops[l].response[1] = TextBlock(<<>>)
        /\ loops[l].response[4].type = "tool_result"
        /\ messages # <<>>
        /\ Last(messages) = BlocksMessage("assistant", loops[l].response)

\* The methods of the lines written to a child's stdin, in order
Methods(ch) == [k \in 1..Len(ch.written) |-> ch.written[k].method]

\* The ids of the requests a child's server has not answered
UnansweredIds(ch) == {req.id : req \in ch.unanswered}

\* The step reads the response to a request other than the awaited one
ReadsOtherResponse ==
    /\ op.kind \in {"connect", "call"}
    /\ op.child \in DOMAIN children'
    /\ \E req \in children[op.child].unanswered :
          req.id # op.id /\ req \notin children'[op.child].unanswered

\* The connect that is running ends without a connection
ConnectAborts ==
    /\ clients' = clients
    /\ conns' = conns
    /\ op.child \notin DOMAIN children'
    /\ IF op.all
       THEN /\ op'.kind = "connect_all"
            /\ op'.attempted = Append(op.attempted, [name |-> op.name, ok |-> FALSE])
       ELSE op'.kind = "returned" /\ ~op'.ok

\* C21: a call returns a result only in the step that reads the response
\* with the id of the request it wrote, and the result is the one the server
\* gave to that request; a step that reads the response to another request
\* (the late response of an earlier, failed request) leaves the request
\* awaited.
C21_ResponseCorrelation ==
    [][/\ (op.kind = "call" /\ op'.kind = "returned" /\ op'.ok) =>
            /\ op.id \in UnansweredIds(children[op.child])
            /\ op.id \notin UnansweredIds(children'[op.child])
            /\ op'.text = client_call_tool(op.name, op.tool)
       /\ ReadsOtherResponse =>
            /\ op' = [op EXCEPT !.stale = TRUE]
            /\ op.id \in UnansweredIds(children'[op.child])
            /\ clients' = clients /\ conns' = conns]_vars

\* C21 witness: a call has returned its result after the late response to
\* an earlier request of the connection was read and skipped
C21_Witness ==
    /\ op.kind = "returned"
    /\ op.of = "call"
    /\ op.ok
    /\ op.stale
    /\ op.text = client_call_tool(GIT, U_STATUS)

\* C22: while a request awaits its response, the step that reads a
\* notification, a line that is not JSON or an empty line leaves the
\* request awaited: it does not end it.
C22_OtherLinesSkipped ==
    [][(/\ op.kind \in {"connect", "call"}
        /\ ReadLine
        /\ last_line' \in {"notification", "log", "empty"}) =>
            /\ op'.kind = op.kind
            /\ op'.id = op.id
            /\ op'.pc = op.pc]_vars

\* C23: connect(name) for a name that is not configured or is disabled
\* returns an error with no process spawned and the clients unchanged; for
\* another name it spawns the process and writes initialize (or fails to
\* spawn); when it returns Ok the handshake and tools/list were made on the
\* new process and the connection is stored under name in place of the
\* previous one, whose process is gone, the other connections untouched;
\* when it returns an error the clients are unchanged.
C23_Connect ==
    [][/\ \A name \in ConnectNames :
            Connect(name) =>
               IF name \notin DOMAIN configs \/ configs[name].disabled
               THEN /\ op'.kind = "returned" /\ ~op'.ok
                    /\ spawned' = spawned /\ children' = children
                    /\ clients' = clients /\ conns' = conns
               ELSE \/ /\ op'.kind = "returned" /\ ~op'.ok /\ op'.text = SpawnError
                       /\ spawned' = spawned /\ children' = children
                    \/ /\ op'.kind = "connect" /\ op'.name = name
                       /\ spawned' = spawned + 1
                       /\ DOMAIN children' = DOMAIN children \cup {spawned'}
                       /\ Methods(children'[spawned']) = <<"initialize">>
       /\ (op.kind = "connect" /\ ~op.all /\ op'.kind = "returned") =>
            IF op'.ok
            THEN /\ Methods(children'[op.child]) =
                       <<"initialize", "notifications/initialized", "tools/list">>
                 /\ children'[op.child].unanswered = {}
                 /\ DOMAIN clients' = DOMAIN clients \cup {op.name}
                 /\ DOMAIN conns' = DOMAIN clients'
                 /\ conns'[op.name].child = op.child
                 /\ clients'[op.name] \in {ServerTools(op.name), <<>>}
                 /\ \A n \in DOMAIN clients \ {op.name} :
                       clients'[n] = clients[n] /\ conns'[n] = conns[n]
                 /\ op.name \in DOMAIN conns =>
                       conns[op.name].child \notin DOMAIN children'
            ELSE /\ clients' = clients
                 /\ conns' = conns
                 /\ op.child \notin DOMAIN children']_vars

\* C23 witness: connect("g") has returned Ok a second time and the
\* connection stored is the one made on the second process
C23_Witness ==
    /\ op.kind = "returned"
    /\ op.of = "connect"
    /\ op.ok
    /\ spawned = 2
    /\ DOMAIN children = {2}
    /\ conns[GIT].child = 2
    /\ clients[GIT] = <<>>

\* C24: connect_all returns without an error after one attempt for each
\* configured server that is not disabled and none for a disabled one,
\* whatever attempts failed, and the servers whose attempt succeeded are
\* connected.
C24_ConnectAll ==
    /\ (op.kind \in {"connect", "connect_all"} /\ op.all) =>
          /\ \A k \in 1..Len(op.attempted) : ~configs[op.attempted[k].name].disabled
          /\ op.kind = "connect" => ~configs[op.name].disabled
    /\ (op.kind = "returned" /\ op.of = "connect_all") =>
          /\ op.ok
          /\ Len(op.attempted) = Cardinality({n \in DOMAIN configs : ~configs[n].disabled})
          /\ {op.attempted[k].name : k \in 1..Len(op.attempted)} =
                 {n \in DOMAIN configs : ~configs[n].disabled}
          /\ \A k \in 1..Len(op.attempted) :
                op.attempted[k].ok => op.attempted[k].name \in DOMAIN clients

\* C24 witness: connect_all has returned, its first attempt failed and a
\* later one succeeded
C24_Witness ==
    /\ op.kind = "returned"
    /\ op.of = "connect_all"
    /\ Len(op.attempted) = 3
    /\ ~op.attempted[1].ok
    /\ op.attempted[3].ok
    /\ op.attempted[3].name \in DOMAIN clients

C28_NoReconnect ==
    [][/\ spawned' # spawned =>
            (NextName \/ \E name \in ConnectNames : Connect(name))
       /\ \A full_name \in CallNames :
            LET r == call_tool(clients, full_name)
            IN  (CallTool(full_name) /\ r.ok
                 /\ children[conns[r.server_name].child].eof) =>
                    /\ spawned' = spawned
                    /\ DOMAIN children' = DOMAIN children
                    /\ conns'[r.server_name].child = conns[r.server_name].child
                    /\ op'.kind = "returned" =>
                          ~op'.ok /\ op'.text = ServerClosed(r.server_name)
       /\ (op.kind = "call" /\ children[op.child].eof /\ ReadLine) =>
            /\ spawned' = spawned
            /\ op'.kind = "returned"
            /\ ~op'.ok
            /\ op'.text = ServerClosed(op.name)]_vars

\* The requests written to a child's stdin, in order (the notifications
\* left out)
Requests(ch) == SelectSeq(ch.written, LAMBDA w : w.method # "notifications/initialized")

\* C31: on every process the k-th request written carries the id k,
\* whatever became of the requests before it, the notifications carry no
\* id, and the id counter of a stored connection is past every id written.
C31_RequestIds ==
    \A c \in DOMAIN children :
        LET ch == children[c]
        IN  /\ \A k \in 1..Len(Requests(ch)) : Requests(ch)[k].id = k
            /\ \A k \in 1..Len(ch.written) :
                  ch.written[k].method = "notifications/initialized" <=> ch.written[k].id = 0
            /\ \A n \in DOMAIN conns :
                  conns[n].child = c => conns[n].next_id > Len(Requests(ch))

\* C31 witness: the fourth request of a connection is written with id 4
\* after the third, with id 3, has failed and was never answered, the
\* notification of the handshake between the first and the second
C31_Witness ==
    \E c \in DOMAIN children :
        /\ Len(children[c].written) = 5
        /\ children[c].written[2].id = 0
        /\ children[c].written[5].id = 4
        /\ 3 \in UnansweredIds(children[c])
        /\ op.kind = "call"
        /\ op.id = 4

\* C32: the step in which a request reads the end of the stream ends the
\* request with the closed-connection error: a call returns that error, a
\* connect is aborted with it, and no result is returned.
C32_EofFailsRequest ==
    [][(/\ op.kind \in {"connect", "call"}
        /\ ReadLine
        /\ last_line' = "eof") =>
            /\ op'.kind \notin {"connect", "call"}
            /\ op.kind = "call" =>
                  /\ op'.kind = "returned"
                  /\ ~op'.ok
                  /\ op'.text = ServerClosed(op.name)
                  /\ children'[op.child].eof
            /\ op.kind = "connect" =>
                  /\ ConnectAborts
                  /\ ~op.all => op'.text = ServerClosed(op.name)]_vars

\* C32 witness: a call has returned the closed-connection error after
\* the end of the stream was read, its request unanswered
C32_Witness ==
    /\ op.kind = "returned"
    /\ op.of = "call"
    /\ ~op.ok
    /\ op.text = ServerClosed(GIT)
    /\ last_line = "eof"
    /\ \E c \in DOMAIN children : children[c].eof /\ children[c].unanswered # {}

\* C33: a call that reads the response with its id and an error object
\* returns an error made of that object, and one that reads the response
\* with its id and no error object returns its result; after the error the
\* connection is still stored with its process running, and the next call
\* on it is written with the next id.
C33_ErrorResponse ==
    [][/\ (op.kind = "call" /\ ReadLine /\ last_line' = "error") =>
            /\ op'.kind = "returned"
            /\ ~op'.ok
            /\ op'.text = <<"MCP error: ">>
                            \o ServerError(request("tools/call", op.id, op.tool)).text
            /\ clients' = clients
            /\ conns'[op.name].child = op.child
            /\ conns'[op.name].next_id = op.id + 1
            /\ children'[op.child].state = "running"
       /\ (op.kind = "call" /\ ReadLine /\ last_line' = "content") =>
            /\ op'.kind = "returned"
            /\ op'.ok
            /\ op'.text = client_call_tool(op.name, op.tool)
       /\ \A full_name \in CallNames :
            LET r == call_tool(clients, full_name)
            IN  (/\ op.kind = "returned" /\ op.of = "call" /\ last_line = "error"
                 /\ CallTool(full_name) /\ r.ok /\ r.server_name = op.name) =>
                    /\ op'.kind = "call"
                    /\ op'.id = conns[op.name].next_id
                    /\ Last(children'[op'.child].written) =
                          [method |-> "tools/call", id |-> op'.id]]_vars

\* C33 witness: a call has returned the error object of its response and
\* its connection has a running process and the next id
C33_Witness ==
    /\ op.kind = "returned"
    /\ op.of = "call"
    /\ ~op.ok
    /\ last_line = "error"
    /\ op.name \in DOMAIN conns
    /\ conns[op.name].next_id = 4
    /\ children[conns[op.name].child].state = "running"

\* C34: a connect that reads, as the response to tools/list, a result
\* without "tools" or with an empty array succeeds: the connection is
\* stored with no tools, on the process that answered, which keeps running.
C34_NoToolsIsNoError ==
    [][(/\ op.kind = "connect"
        /\ ReadLine
        /\ last_line' \in {"missing", "empty_array"}) =>
            /\ op.name \in DOMAIN clients'
            /\ clients'[op.name] = <<>>
            /\ conns'[op.name].child = op.child
            /\ children'[op.child].state = "running"
            /\ IF op.all
               THEN op'.attempted = Append(op.attempted, [name |-> op.name, ok |-> TRUE])
               ELSE op'.kind = "returned" /\ op'.ok]_vars

\* C34 witness: connect has returned Ok on a tools/list result without
\* "tools" and the connection has no tools
C34_Witness ==
    /\ op.kind = "returned"
    /\ op.of = "connect"
    /\ op.ok
    /\ last_line = "missing"
    /\ clients[op.name] = <<>>

\* The (server, tool) pairs of the connections and their snapshots
Pairs == UNION {{<<n, i>> : i \in 1..Len(clients[n])} : n \in DOMAIN clients}

\* The positions of a sequence that hold a value
Positions(q, v) == {j \in 1..Len(q) : q[j] = v}

\* C35: what tool_definitions returned holds, for every connection and
\* every tool of its snapshot, exactly one definition with the namespaced
\* name of the pair, holds nothing else, and holds the tools of one server
\* in the order of the snapshot.
C35_CatalogContents ==
    \A k \in 1..Len(catalogs) :
        LET defs == catalogs[k]
        IN  /\ \A p \in Pairs :
                  Cardinality(Positions(defs, namespaced(p[1], clients[p[1]][p[2]]))) = 1
            /\ \A j \in 1..Len(defs) :
                  \E p \in Pairs : defs[j] = namespaced(p[1], clients[p[1]][p[2]])
            /\ \A n \in DOMAIN clients :
                  \A i1, i2 \in 1..Len(clients[n]) :
                      i1 < i2 =>
                         \E j1, j2 \in 1..Len(defs) :
                            /\ j1 < j2
                            /\ defs[j1] = namespaced(n, clients[n][i1])
                            /\ defs[j2] = namespaced(n, clients[n][i2])

\* The step ends a connect of name n with a stored connection
ConnectSucceeds(n) ==
    /\ op.kind = "connect"
    /\ op.name = n
    /\ op.pc = "tools/list"
    /\ ReadLine
    /\ n \in DOMAIN conns'
    /\ conns'[n].child = op.child

\* C36: the tools of a connection are the ones of the tools/list response
\* its connect read; a step that is not the end of a successful connect of
\* that name (a call written, a call returned or failed, a line skipped,
\* tool_definitions) leaves them as they are, and no connection goes away.
C36_SnapshotFrame ==
    [][/\ DOMAIN clients \subseteq DOMAIN clients'
       /\ \A n \in DOMAIN clients' :
            (n \notin DOMAIN clients \/ clients'[n] # clients[n]) => ConnectSucceeds(n)
       /\ \A n \in DOMAIN clients' :
            ConnectSucceeds(n) =>
               clients'[n] = IF last_line' = "tools" THEN ServerTools(n) ELSE <<>>]_vars

\* C36 witness: two calls were made on a connection, the last one failed,
\* tool_definitions was called, and the connection has the tools of its
\* connect
C36_Witness ==
    /\ op.kind = "returned"
    /\ op.of = "call"
    /\ ~op.ok
    /\ catalogs # <<>>
    /\ GIT \in DOMAIN clients
    /\ clients[GIT] = ServerTools(GIT)
    /\ conns[GIT].next_id = 5

\* The errors a connect that has spawned its process can end with
HandshakeErrors(name) ==
    {ServerClosed(name), InvalidJson, InvalidTools}
    \cup {McpError(ServerError(request(m, i, <<>>)).text) :
             m \in {"initialize", "tools/list"}, i \in 1..2}

\* C37: a single connect that fails, at the spawn, during the handshake or
\* at tools/list, returns its error to the caller and leaves the clients as
\* they were: no entry is added, and a connection stored before under the
\* name keeps its process, its tools and its id counter.
C37_FailedConnectFrame ==
    [][/\ \A name \in ConnectNames :
            (Connect(name) /\ op'.kind = "returned") =>
                /\ ~op'.ok
                /\ op'.text \in {NotFound(name), Disabled(name), SpawnError}
                /\ clients' = clients /\ conns' = conns /\ children' = children
       /\ (op.kind = "connect" /\ ~op.all /\ ReadLine
           /\ op'.kind = "returned" /\ ~op'.ok) =>
                /\ op'.text \in HandshakeErrors(op.name)
                /\ clients' = clients
                /\ conns' = conns
                /\ DOMAIN children' = DOMAIN children \ {op.child}
                /\ \A c \in DOMAIN children' : children'[c] = children[c]]_vars

\* C37 witness: a second connect of a connected server has failed after
\* its process was spawned, and a call on the connection stored before has
\* returned its result
C37_Witness ==
    /\ op.kind = "returned"
    /\ op.of = "call"
    /\ op.ok
    /\ spawned = 2
    /\ DOMAIN children = {1}
    /\ conns[GIT].child = 1

\* C38: the step that ends a successful connect of a name that has a
\* connection stores the connection of the new process under the name and
\* the process of the replaced connection is gone; and whenever no connect
\* is running every process belongs to the one connection stored under
\* its server's name, so no server has two processes.
C38_ReconnectReplace ==
    [][/\ \A n \in DOMAIN conns :
            ConnectSucceeds(n) =>
                /\ conns'[n].child = op.child
                /\ conns[n].child # op.child
                /\ conns[n].child \notin DOMAIN children'
                /\ op.child \in DOMAIN children'
                /\ DOMAIN conns' = DOMAIN conns
       /\ op'.kind # "connect" =>
            /\ \A c1, c2 \in DOMAIN children' :
                  children'[c1].name = children'[c2].name => c1 = c2
            /\ \A c \in DOMAIN children' :
                  /\ children'[c].name \in DOMAIN conns'
                  /\ conns'[children'[c].name].child = c]_vars

\* C38 witness: the connect of a connected server is about to read its
\* tools/list response, the process of the stored connection and the new
\* process both alive
C38_Witness ==
    /\ op.kind = "connect"
    /\ op.pc = "tools/list"
    /\ op.name \in DOMAIN conns
    /\ conns[op.name].child # op.child
    /\ {conns[op.name].child, op.child} \subseteq DOMAIN children
    /\ children[conns[op.name].child].state = "running"

\* C39: whenever a task appends the assistant message of a turn, the
\* snapshot it sent for that turn is the Conversation it appends to: the
\* response is never appended to a history other than the one it was
\* computed from.
C39_NoCloneAndDiverge ==
    [][\A l \in LoopIds :
          (/\ loops[l].pc = "send"
           /\ loops'[l].pc \in {"done", "executing"}
           /\ messages' # messages)
          => /\ loops[l].snapshot = messages
             /\ SubSeq(messages', 1, Len(loops[l].snapshot)) = loops[l].snapshot]_vars

\* C40: a started agent task is eventually followed by its terminating
\* event: exactly one, AgentCompleted if run_agent_loop returned Ok and
\* AgentError if it failed, sent when the forwarder has forwarded every
\* observer event of the loop and has finished; and once the task has
\* ended the busy flag returns to false and stays so.
C40_TaskTermination ==
    /\ [](task.pc = "ended" =>
            /\ task.sent = <<IF task.result = "Ok" THEN "AgentCompleted"
                             ELSE "AgentError">>
            /\ task.forwarder = "finished"
            /\ task.events = 0)
    /\ [](task.pc # "ended" => task.sent = <<>>)
    /\ (task.pc = "start") ~> (task.pc = "ended")
    /\ (task.pc = "ended") ~> [](~busy)

====
